---- MODULE Spec2Model ----
(***************************************************************************)
(* Deno-Core request dispatch engine (Server in src/engine.ts, lines       *)
(* 96-314) as a state machine.                                             *)
(*                                                                         *)
(* The Server's collaborators Router, Metadata and Context live in files   *)
(* that are not part of the source tree at hand (router.ts, metadata.ts,   *)
(* context.ts, defs.ts); they are modelled from the specification and are  *)
(* marked as such where they are defined.                                  *)
(*                                                                         *)
(* One action is one run of JavaScript between two suspension points: an   *)
(* async function runs synchronously up to its next await.  User callbacks *)
(* (middleware, route handler, template view, ErrorHandler) are the        *)
(* environment: each either returns or raises, at a later step.            *)
(***************************************************************************)
EXTENDS Integers, Sequences, FiniteSets, TLC

VARIABLES
    phase,         \* "loading" (modules being imported) or "serving"
    router,        \* Server.#router: the set of route entries, one per key
    metaRoutes,    \* Metadata.routes: decorator-declared routes, in order
    middlewares,   \* Metadata.middlewares
    errorHandler,  \* Metadata.errorHandler is set
    now,           \* Date.now()
    req,           \* per in-flight request: the locals of #handleRequest and its Context
    plugins,       \* Metadata.plugins: the set of <<name, instance>> bindings
    pluginState,   \* the mutable state of each plugin instance
    fs,            \* what Deno.stat and Deno.readFile answer for the requested file
    client,        \* the Last-Modified value the HTTP client has kept
    lookup,        \* the Router's call history: direct adds, the last find, composes since
    pg,            \* the last paginate call and its outcome
    mpd,           \* one MpdClient: its open connections, calls in flight, last outcome
    cache,         \* one Cache: its map, the pending timers and the clock
    pool,          \* one Postgres: its pool's clients and the execute calls in flight
    sse            \* one EventResponse: its interval timer, pending ticks and controller

vars == <<phase, router, metaRoutes, middlewares, errorHandler, now, req,
          plugins, pluginState, fs, client, lookup, pg, mpd, cache, pool, sse>>

\* What the dispatcher's own steps leave alone.
others == <<plugins, pluginState, fs, client, lookup, pg, mpd, cache, pool, sse>>

\* The helper classes beside the engine, and the engine as they see it.
helpers == <<mpd, cache, pool, sse>>

\* The dispatcher's own state.
dispatcher == <<phase, router, metaRoutes, middlewares, errorHandler, now, req>>

(***************************************************************************)
(* Bounds of the model.                                                    *)
(***************************************************************************)
MaxMetaRoutes == 1
MaxMiddlewares == 2
MaxClock == 1
MaxRecords == 13
MaxAdds == 3
MaxComposes == 2
MaxPluginCalls == 1

Priorities == {1, 2}
Callbacks == {"h1"}
Templates == {"index.html"}
RequestMethods == {"GET", "POST"}
SeqReqs == {1}
ConcReqs == {1, 2}
PluginNames == {"redis"}
Instances == {"Redis", "Mailer"}

(***************************************************************************)
(* defs.ts (not in the source tree): HttpStatus and Method.                *)
(***************************************************************************)
NOT_FOUND == 404
INTERNAL_SERVER_ERROR == 500
OK == 200
NOT_MODIFIED == 304
ALL == "ALL"

(***************************************************************************)
(* Paths.  A pattern is a sequence of segments, each a literal or a :name  *)
(* parameter; a request path is a sequence of strings.                     *)
(***************************************************************************)
Lit(s) == [kind |-> "lit", name |-> s]
Param(s) == [kind |-> "param", name |-> s]

Ping == <<Lit("ping")>>
UserId == <<Lit("users"), Param("id")>>
\* The (method, pattern) pairs the loaded modules declare routes for.
RouteKeys ==
    { [method |-> "GET", pattern |-> Ping], [method |-> ALL, pattern |-> Ping],
      [method |-> "GET", pattern |-> UserId] }
RequestPaths == { <<"ping">>, <<"users", "42">> }

NoTemplate == ""
NoRoute == [method |-> "", pattern |-> <<>>, callback |-> "", template |-> NoTemplate]

(***************************************************************************)
(* Router (router.ts is not in the source tree; modelled from spec 4.2).   *)
(***************************************************************************)
Shape(pattern) ==
    [i \in 1..Len(pattern) |->
        IF pattern[i].kind = "param" THEN Param("") ELSE pattern[i]]

SameKey(a, b) == a.method = b.method /\ Shape(a.pattern) = Shape(b.pattern)

\* Mutant of RouterAdd: registering a key the table holds removes the route.
RouterAddDropsDuplicate(rt, entry) ==
    IF \E x \in rt : SameKey(x, entry)
    THEN {x \in rt : ~SameKey(x, entry)}
    ELSE rt \cup {entry}

\* Router.add: last registration wins for one (method, pattern) key.
RouterAdd(rt, entry) == {x \in rt : ~SameKey(x, entry)} \cup {entry}

\* A literal segment matches itself; a parameter segment matches any single
\* non-empty segment.
Matches(pattern, path) ==
    /\ Len(pattern) = Len(path)
    /\ \A i \in 1..Len(pattern) :
          IF pattern[i].kind = "lit" THEN pattern[i].name = path[i] ELSE path[i] # ""

\* Mutant of PreferredOver: the parameter segment wins.
PreferredOverParamFirst(a, b) ==
    \/ Shape(a) = Shape(b)
    \/ \E i \in 1..Len(a) :
          /\ a[i].kind = "param" /\ b[i].kind = "lit"
          /\ \A j \in 1..(i - 1) : a[j].kind = b[j].kind

\* a is preferred over b: at the first depth where they differ in kind, a is literal.
PreferredOver(a, b) ==
    \/ Shape(a) = Shape(b)
    \/ \E i \in 1..Len(a) :
          /\ a[i].kind = "lit" /\ b[i].kind = "param"
          /\ \A j \in 1..(i - 1) : a[j].kind = b[j].kind

\* Mutant of ParamsOf: every name is bound to the path's last segment.
ParamsOfLastSegment(pattern, path) ==
    { <<pattern[i].name, path[Len(path)]>> : i \in {j \in 1..Len(pattern) : pattern[j].kind = "param"} }

ParamsOf(pattern, path) ==
    { <<pattern[i].name, path[i]>> : i \in {j \in 1..Len(pattern) : pattern[j].kind = "param"} }

\* Router.find: the matching entry of that method, literal segments first.
RouterFind(rt, method, path) ==
    LET cands == {e \in rt : e.method = method /\ Matches(e.pattern, path)}
    IN  IF cands = {}
        THEN [found |-> FALSE, entry |-> NoRoute, params |-> {}]
        ELSE LET best == CHOOSE c \in cands :
                            \A d \in cands : PreferredOver(c.pattern, d.pattern)
             IN  [found |-> TRUE, entry |-> best, params |-> ParamsOf(best.pattern, path)]

(***************************************************************************)
(* Metadata (metadata.ts is not in the source tree; modelled from spec 3   *)
(* and 4.1): middleware entries run in ascending priority, ties in         *)
(* registration order.                                                     *)
(***************************************************************************)
RECURSIVE InsertSorted(_, _)
InsertSorted(sorted, entry) ==
    IF sorted = <<>> THEN <<entry>>
    ELSE IF entry.priority < Head(sorted).priority
         THEN <<entry>> \o sorted
         ELSE <<Head(sorted)>> \o InsertSorted(Tail(sorted), entry)

RECURSIVE StableSort(_)
StableSort(list) ==
    IF list = <<>> THEN <<>>
    ELSE InsertSorted(StableSort(SubSeq(list, 1, Len(list) - 1)), list[Len(list)])

RECURSIVE AddAll(_, _)
AddAll(rt, routes) ==
    IF routes = <<>> THEN rt
    ELSE AddAll(RouterAdd(rt, Head(routes)), Tail(routes))

(***************************************************************************)
(* Failures.  A raised value is an error object with an optional status    *)
(* (0 stands for "no status declared", which is falsy as undefined is) and *)
(* a message (possibly empty, as of new Error()).                          *)
(***************************************************************************)
NoError == [status |-> 0, message |-> "-"]
RouteNotFound == [status |-> NOT_FOUND, message |-> "Route not found"]
Errors == [status : {0, 400}, message : {"", "boom"}]
\* What a middleware or the template engine raises.
PlainError == [status |-> 0, message |-> "boom"]
MiddlewareErrors == {PlainError, [status |-> 400, message |-> ""]}

\* Mutant of StatusOf: the error's own status is ignored.
StatusOfAlways500(e) == INTERNAL_SERVER_ERROR

\* e.status || HttpStatus.INTERNAL_SERVER_ERROR
StatusOf(e) == IF e.status # 0 THEN e.status ELSE INTERNAL_SERVER_ERROR

\* e.message || "Internal Server Error"
MessageOf(e) == IF e.message # "" THEN <<e.message>> ELSE <<"Internal Server Error">>

(***************************************************************************)
(* Bodies are sequences of strings; rendering prepends what it adds.       *)
(***************************************************************************)
NullBody == <<"null">>
NodeBody == <<"node">>
DataBody == <<"data">>
HandlerResults == {NullBody, NodeBody, DataBody}
ErrorPage == <<"error page">>
\* What a callback returns and the status it leaves on the Context: untouched,
\* or 304 with no body as #handleStatic does (lines 261-262).
HandlerOutcomes ==
    [result : HandlerResults, status : {OK}] \cup {[result |-> NullBody, status |-> NOT_MODIFIED]}

\* body !== undefined && body !== null && node.tag !== undefined && node.tag !== null
IsNode(body) == body = NodeBody

\* renderJsx(node), jsx.ts
RenderJsx(node) == <<"jsx">> \o node

\* ctx.view(template, data), Engine.view
View(template, data) == <<"view", template>> \o data

Ev(name, id) == [ev |-> name, id |-> id]

NoHeader == [ms |-> -1, unit |-> ""]
NoResponse == [status |-> 0, body |-> <<>>, time |-> NoHeader]

\* A header holding an HTTP-date (whole seconds), some other text, or absent.
AbsentHeader == [set |-> FALSE, sec |-> 0, text |-> ""]
HttpDate(sec) == [set |-> TRUE, sec |-> sec, text |-> ""]
OtherHeader == [set |-> TRUE, sec |-> 0, text |-> "yesterday"]
NoHeaders == [contentType |-> "", lastModified |-> AbsentHeader]

\* What the file system answers for the requested path: Deno.stat finds a
\* file, a directory, nothing ("missing") or fails otherwise ("error");
\* Deno.readFile of the file (of index.html in a directory) returns the
\* bytes ("ok") or fails likewise.
NoFile == [stat |-> "missing", hasMtime |-> FALSE, mtime |-> 0, mime |-> FALSE,
           read |-> "missing"]
NoLookup == [asked |-> FALSE, method |-> "", path |-> <<>>,
             answer |-> [found |-> FALSE, entry |-> NoRoute, params |-> {}],
             table |-> {}, added |-> <<>>,
             phase |-> "", direct |-> FALSE, composes |-> 0]
NoPage == [called |-> FALSE]

IdleReq ==
    [ pc |-> "idle", method |-> "", path |-> <<>>, time |-> 0,
      route |-> NoRoute, params |-> {}, status |-> 0, error |-> NoError,
      responseTime |-> NoHeader, body |-> NullBody, result |-> NullBody,
      raised |-> NoError, mw |-> 0, trace |-> <<>>, built |-> NoResponse,
      plugins |-> {}, headers |-> NoHeaders, statusText |-> "",
      ifModifiedSince |-> AbsentHeader, stat |-> NoFile, io |-> "" ]

Log(c, name, id) == [c EXCEPT !.trace = Append(@, Ev(name, id))]

\* Mutant of Finish: the response is built before the header is set.
FinishBuildsBeforeStamp(c) ==
    LET built == [Log(c, "build", 0) EXCEPT
                     !.built = [status |-> c.status, body |-> c.body, time |-> c.responseTime]]
    IN  [Log(built, "stamp", 0) EXCEPT
            !.pc = "sent",
            !.responseTime = [ms |-> now - c.time, unit |-> "ms"]]

(***************************************************************************)
(* Server.#handleRequest, lines 232-233: stamp the timing header and build *)
(* the response from the Context.                                          *)
(***************************************************************************)
Finish(c) ==
    LET stamped == [Log(c, "stamp", 0) EXCEPT
                       !.responseTime = [ms |-> now - c.time, unit |-> "ms"]]
    IN  [Log(stamped, "build", 0) EXCEPT
            !.pc = "sent",
            !.built = [status |-> stamped.status, body |-> stamped.body,
                       time |-> stamped.responseTime]]

\* Mutant of Caught: the failure is converted first and logged afterwards, if at all.
CaughtLogsAfterConversion(c, e) ==
    IF errorHandler
    THEN Log([Log(c, "errorHandler", 0) EXCEPT
                 !.raised = e,
                 !.status = StatusOf(e),
                 !.error = [e EXCEPT !.status = StatusOf(e)],
                 !.pc = "errorHandler"], "log", 0)
    ELSE Finish([c EXCEPT !.raised = e, !.status = StatusOf(e), !.body = MessageOf(e)])

\* Mutant of Caught: the ErrorHandler is called without ctx.error being set.
CaughtWithoutError(c, e) ==
    LET logged == [Log(c, "log", 0) EXCEPT !.raised = e]
    IN  IF errorHandler
        THEN [Log(logged, "errorHandler", 0) EXCEPT
                 !.status = StatusOf(e),
                 !.pc = "errorHandler"]
        ELSE Finish([logged EXCEPT !.status = StatusOf(e), !.body = MessageOf(e)])

(***************************************************************************)
(* Server.#handleRequest, lines 219-231: the catch block.                  *)
(***************************************************************************)
Caught(c, e) ==
    LET logged == [Log(c, "log", 0) EXCEPT !.raised = e]
    IN  IF errorHandler
        THEN [Log(logged, "errorHandler", 0) EXCEPT
                 !.status = StatusOf(e),
                 !.error = [e EXCEPT !.status = StatusOf(e)],
                 !.pc = "errorHandler"]
        ELSE Finish([logged EXCEPT !.status = StatusOf(e), !.body = MessageOf(e)])

\* Mutant of MatchRoute: no fallback to ALL.
MatchRouteExactOnly(rt, method, path) == RouterFind(rt, method, path)

\* Mutant of MatchRoute: ALL is looked up first.
MatchRouteAllFirst(rt, method, path) ==
    LET fallback == RouterFind(rt, ALL, path)
    IN  IF fallback.found THEN fallback ELSE RouterFind(rt, method, path)

(***************************************************************************)
(* Server.#handleRequest, lines 198-199: exact method first, else ALL.     *)
(***************************************************************************)
MatchRoute(rt, method, path) ==
    LET exact == RouterFind(rt, method, path)
    IN  IF exact.found THEN exact ELSE RouterFind(rt, ALL, path)

\* Mutant of MiddlewareAt: the list is walked from its end.
MiddlewareAtReversed(list, i) == list[Len(list) - i + 1]

(***************************************************************************)
(* Server.#callMiddlewares, lines 294-298: the i-th entry of the loop.     *)
(***************************************************************************)
MiddlewareAt(list, i) == list[i]

CallMiddleware(c, i) ==
    IF i <= Len(middlewares)
    THEN [Log(c, "mw", MiddlewareAt(middlewares, i).id) EXCEPT !.pc = "mw", !.mw = i]
    ELSE [c EXCEPT !.pc = "mwJoin"]

(***************************************************************************)
(* Module loading: the registration surface.                               *)
(***************************************************************************)
\* Server.#shortcut: server.get(path, callback) and its siblings.
Shortcut(method, pattern, callback) ==
    /\ phase = "loading"
    /\ router' = RouterAdd(router, [method |-> method, pattern |-> pattern,
                                    callback |-> callback, template |-> NoTemplate])
    /\ UNCHANGED <<phase, metaRoutes, middlewares, errorHandler, now, req>>
    /\ UNCHANGED others

\* @Get(path) and siblings with @Template(template).  (A decorated route with no
\* template composes to the entry Shortcut adds.)
RegisterRoute(method, pattern, callback, template) ==
    /\ phase = "loading"
    /\ Len(metaRoutes) < MaxMetaRoutes
    /\ metaRoutes' = Append(metaRoutes, [method |-> method, pattern |-> pattern,
                                         callback |-> callback, template |-> template])
    /\ UNCHANGED <<phase, router, middlewares, errorHandler, now, req>>
    /\ UNCHANGED others

\* @Middleware(priority)
RegisterMiddleware(priority) ==
    /\ phase = "loading"
    /\ Len(middlewares) < MaxMiddlewares
    /\ middlewares' = Append(middlewares, [priority |-> priority, id |-> Len(middlewares) + 1])
    /\ UNCHANGED <<phase, router, metaRoutes, errorHandler, now, req>>
    /\ UNCHANGED others

\* @Plugin(name) on a class: its one instance is kept under the name.
RegisterPlugin(name, instance) ==
    /\ phase = "loading"
    /\ plugins' = {b \in plugins : b[1] # name} \cup {<<name, instance>>}
    /\ UNCHANGED dispatcher
    /\ UNCHANGED <<pluginState, fs, client, lookup, pg, helpers>>

\* @ErrorHandler
RegisterErrorHandler ==
    /\ phase = "loading"
    /\ errorHandler' = TRUE
    /\ UNCHANGED <<phase, router, metaRoutes, middlewares, now, req>>
    /\ UNCHANGED others

(***************************************************************************)
(* Server.#compose, lines 301-304.                                         *)
(***************************************************************************)
Compose ==
    /\ middlewares' = StableSort(middlewares)
    /\ router' = AddAll(router, metaRoutes)
    /\ lookup' = [lookup EXCEPT
                     !.direct = FALSE,
                     !.composes = IF lookup.asked /\ @ < MaxComposes THEN @ + 1 ELSE @]

\* Server.listen, lines 166-180: nothing is served when no route exists.
Listen ==
    /\ phase = "loading"
    /\ Compose
    /\ phase' = IF router' = {} THEN "loading" ELSE "serving"
    /\ UNCHANGED <<metaRoutes, errorHandler, now, req>>
    /\ UNCHANGED <<plugins, pluginState, fs, client, pg, helpers>>

\* Server.dispatch, lines 280-283: the handler given to a third-party server.
Dispatch ==
    /\ Compose
    /\ phase' = "serving"
    /\ UNCHANGED <<metaRoutes, errorHandler, now, req>>
    /\ UNCHANGED <<plugins, pluginState, fs, client, pg, helpers>>

(***************************************************************************)
(* Server.#handleRequest, lines 187-234, one action per run between awaits.*)
(***************************************************************************)
\* Mutant of AssignPlugins: nothing is attached to the Context.
AssignPluginsNone(c) == Log(c, "plugins", 0)

\* Line 194: Object.assign(ctx, Metadata.plugins) attaches every registered
\* plugin instance (the reference, not a copy) to the fresh Context.
AssignPlugins(c) == [Log(c, "plugins", 0) EXCEPT !.plugins = plugins]

\* Mutant of Receive: one Context instance is shared by the requests in flight.
ReceiveSharesContext(r, method, path) ==
    /\ phase = "serving"
    /\ req[r].pc = "idle"
    /\ LET c0 == AssignPlugins([Log(IdleReq, "created", 0) EXCEPT
                     !.method = method, !.path = path, !.time = now, !.status = OK])
           m == MatchRoute(router, method, path)
           c == IF m.found
                THEN CallMiddleware(
                        [Log(Log(c0, "matched", 0), "params", 0) EXCEPT
                            !.route = m.entry, !.params = m.params], 1)
                ELSE Caught(Log(c0, "notFound", 0), RouteNotFound)
       IN  req' = [q \in DOMAIN req |->
                     IF q = r \/ req[q].pc \notin {"idle", "sent", "rejected"}
                     THEN c ELSE req[q]]
    /\ UNCHANGED <<phase, router, metaRoutes, middlewares, errorHandler, now>>
    /\ UNCHANGED others

\* Mutant of Receive: params is assigned before the route is tested.
ReceiveAssignsParamsFirst(r, method, path) ==
    /\ phase = "serving"
    /\ req[r].pc = "idle"
    /\ LET c0 == AssignPlugins([Log(IdleReq, "created", 0) EXCEPT
                     !.method = method, !.path = path, !.time = now, !.status = OK])
           m == MatchRoute(router, method, path)
       IN  req' = [req EXCEPT ![r] =
                IF m.found
                THEN CallMiddleware(
                        [Log(Log(c0, "matched", 0), "params", 0) EXCEPT
                            !.route = m.entry, !.params = m.params], 1)
                ELSE Caught(Log(Log(c0, "params", 0), "notFound", 0), RouteNotFound)]
    /\ UNCHANGED <<phase, router, metaRoutes, middlewares, errorHandler, now>>
    /\ UNCHANGED others

\* Lines 188-204: build the Context, match, assign params, start the middlewares.
Receive(r, method, path) ==
    /\ phase = "serving"
    /\ req[r].pc = "idle"
    /\ LET c0 == AssignPlugins([Log(IdleReq, "created", 0) EXCEPT
                     !.method = method, !.path = path, !.time = now, !.status = OK])
           m == MatchRoute(router, method, path)
       IN  req' = [req EXCEPT ![r] =
                IF m.found
                THEN CallMiddleware(
                        [Log(Log(c0, "matched", 0), "params", 0) EXCEPT
                            !.route = m.entry, !.params = m.params], 1)
                ELSE Caught(Log(c0, "notFound", 0), RouteNotFound)]
    /\ UNCHANGED <<phase, router, metaRoutes, middlewares, errorHandler, now>>
    /\ UNCHANGED others

\* Line 296: the awaited middleware returned; the loop goes on.
MiddlewareReturns(r) ==
    /\ req[r].pc = "mw"
    /\ LET c == req[r]
       IN  req' = [req EXCEPT ![r] =
                CallMiddleware(Log(c, "mwDone", MiddlewareAt(middlewares, c.mw).id), c.mw + 1)]
    /\ UNCHANGED <<phase, router, metaRoutes, middlewares, errorHandler, now>>
    /\ UNCHANGED others

\* Mutant of MiddlewareRaises: the failure is swallowed and the loop goes on.
MiddlewareRaisesSwallowed(r, e) ==
    /\ req[r].pc = "mw"
    /\ LET c == req[r]
       IN  req' = [req EXCEPT ![r] =
                CallMiddleware(Log(c, "mwRaise", MiddlewareAt(middlewares, c.mw).id), c.mw + 1)]
    /\ UNCHANGED <<phase, router, metaRoutes, middlewares, errorHandler, now>>
    /\ UNCHANGED others

\* Line 296: the awaited middleware raised.
MiddlewareRaises(r, e) ==
    /\ req[r].pc = "mw"
    /\ LET c == req[r]
       IN  req' = [req EXCEPT ![r] =
                Caught(Log(c, "mwRaise", MiddlewareAt(middlewares, c.mw).id), e)]
    /\ UNCHANGED <<phase, router, metaRoutes, middlewares, errorHandler, now>>
    /\ UNCHANGED others

\* Mutant of CallHandler: callbacks are serialised, one request's at a time.
CallHandlerSerialised(r) ==
    /\ req[r].pc = "mwJoin"
    /\ \A o \in DOMAIN req \ {r} : req[o].pc # "handler"
    /\ req' = [req EXCEPT ![r] = [Log(req[r], "handler", 0) EXCEPT !.pc = "handler"]]
    /\ UNCHANGED <<phase, router, metaRoutes, middlewares, errorHandler, now>>
    /\ UNCHANGED others

\* Line 205: #callMiddlewares resolved; the route's callback is called.
CallHandler(r) ==
    /\ req[r].pc = "mwJoin"
    /\ req' = [req EXCEPT ![r] = [Log(req[r], "handler", 0) EXCEPT !.pc = "handler"]]
    /\ UNCHANGED <<phase, router, metaRoutes, middlewares, errorHandler, now>>
    /\ UNCHANGED others

\* Mutant of HandlerReturns: a markup node is rendered even when the route has a template.
HandlerReturnsNodeFirst(r, result, status, jsxOk) ==
    /\ req[r].pc = "handler"
    /\ LET c == [Log(req[r], "handlerDone", 0) EXCEPT
                    !.result = result, !.body = result, !.status = status]
       IN  req' = [req EXCEPT ![r] =
                IF IsNode(result)
                THEN IF jsxOk
                     THEN Finish([Log(c, "jsx", 0) EXCEPT
                                     !.body = <<"<!DOCTYPE html>">> \o RenderJsx(result)])
                     ELSE Caught(Log(c, "jsxRaise", 0), PlainError)
                ELSE IF c.route.template # NoTemplate
                     THEN [Log(c, "view", 0) EXCEPT !.pc = "view"]
                     ELSE Finish(c)]
    /\ UNCHANGED <<phase, router, metaRoutes, middlewares, errorHandler, now>>
    /\ UNCHANGED others

\* Lines 205-215 and 232-233: the callback returned `result`, having left the
\* status at `status`; post-process.  renderJsx returns or raises (jsxOk).
HandlerReturns(r, result, status, jsxOk) ==
    /\ req[r].pc = "handler"
    /\ LET c == [Log(req[r], "handlerDone", 0) EXCEPT
                    !.result = result, !.body = result, !.status = status]
       IN  req' = [req EXCEPT ![r] =
                IF c.route.template # NoTemplate
                THEN [Log(c, "view", 0) EXCEPT !.pc = "view"]
                ELSE IF IsNode(result)
                     THEN IF jsxOk
                          THEN Finish([Log(c, "jsx", 0) EXCEPT
                                          !.body = <<"<!DOCTYPE html>">> \o RenderJsx(result)])
                          ELSE Caught(Log(c, "jsxRaise", 0), PlainError)
                     ELSE Finish(c)]
    /\ UNCHANGED <<phase, router, metaRoutes, middlewares, errorHandler, now>>
    /\ UNCHANGED others

\* Mutant of HandlerRaises: the catch block uses the ErrorHandler up.
HandlerRaisesDropsErrorHandler(r, e) ==
    /\ req[r].pc = "handler"
    /\ req' = [req EXCEPT ![r] = Caught(Log(req[r], "handlerRaise", 0), e)]
    /\ errorHandler' = FALSE
    /\ UNCHANGED <<phase, router, metaRoutes, middlewares, now>>
    /\ UNCHANGED others

\* Line 205: the callback raised.
HandlerRaises(r, e) ==
    /\ req[r].pc = "handler"
    /\ req' = [req EXCEPT ![r] = Caught(Log(req[r], "handlerRaise", 0), e)]
    /\ UNCHANGED <<phase, router, metaRoutes, middlewares, errorHandler, now>>
    /\ UNCHANGED others

\* Line 208: the template was rendered.
ViewReturns(r) ==
    /\ req[r].pc = "view"
    /\ LET c == req[r]
       IN  req' = [req EXCEPT ![r] =
                Finish([Log(c, "viewDone", 0) EXCEPT
                           !.body = View(c.route.template, c.body)])]
    /\ UNCHANGED <<phase, router, metaRoutes, middlewares, errorHandler, now>>
    /\ UNCHANGED others

\* Mutant of ViewRaises: rendering happens outside the try block.
ViewRaisesUncaught(r, e) ==
    /\ req[r].pc = "view"
    /\ req' = [req EXCEPT ![r] = [Log(req[r], "viewRaise", 0) EXCEPT !.pc = "rejected", !.raised = e]]
    /\ UNCHANGED <<phase, router, metaRoutes, middlewares, errorHandler, now>>
    /\ UNCHANGED others

\* Line 208: rendering the template raised.
ViewRaises(r, e) ==
    /\ req[r].pc = "view"
    /\ req' = [req EXCEPT ![r] = Caught(Log(req[r], "viewRaise", 0), e)]
    /\ UNCHANGED <<phase, router, metaRoutes, middlewares, errorHandler, now>>
    /\ UNCHANGED others

\* Lines 226 and 232-233: the ErrorHandler returned the body.
ErrorHandlerReturns(r) ==
    /\ req[r].pc = "errorHandler"
    /\ req' = [req EXCEPT ![r] =
            Finish([Log(req[r], "errorHandlerDone", 0) EXCEPT !.body = ErrorPage])]
    /\ UNCHANGED <<phase, router, metaRoutes, middlewares, errorHandler, now>>
    /\ UNCHANGED others

\* Mutant of ErrorHandlerRaises: the catch block catches its own failure.
ErrorHandlerRaisesRecaught(r) ==
    /\ req[r].pc = "errorHandler"
    /\ req' = [req EXCEPT ![r] = Caught(Log(req[r], "errorHandlerRaise", 0), PlainError)]
    /\ UNCHANGED <<phase, router, metaRoutes, middlewares, errorHandler, now>>
    /\ UNCHANGED others

\* Line 226: the ErrorHandler raised, inside the catch block: nothing catches it.
ErrorHandlerRaises(r) ==
    /\ req[r].pc = "errorHandler"
    /\ req' = [req EXCEPT ![r] = [Log(req[r], "errorHandlerRaise", 0) EXCEPT !.pc = "rejected"]]
    /\ UNCHANGED <<phase, router, metaRoutes, middlewares, errorHandler, now>>
    /\ UNCHANGED others

\* The listener has sent the response (or seen the rejection); the Context is dropped.
Release(r) ==
    /\ req[r].pc \in {"sent", "rejected"}
    /\ req' = [req EXCEPT ![r] = IdleReq]
    /\ UNCHANGED <<phase, router, metaRoutes, middlewares, errorHandler, now>>
    /\ UNCHANGED others

\* Date.now() advances.
Tick ==
    /\ \E r \in DOMAIN req : req[r].pc \notin {"idle", "sent", "rejected"}
    /\ now < MaxClock
    /\ now' = now + 1
    /\ UNCHANGED <<phase, router, metaRoutes, middlewares, errorHandler, req>>
    /\ UNCHANGED others

(***************************************************************************)
(* The helper classes before their first call.                             *)
(***************************************************************************)
MpdCalls == {1, 2}
NoArgument == [given |-> FALSE, str |-> FALSE, num |-> 0, text |-> <<>>]
NoCommandLine == [command |-> "", quoted |-> FALSE, text |-> <<>>]
NoCall == [pc |-> "idle", command |-> "", argument |-> NoArgument, line |-> NoCommandLine]
NoOutcome == [threw |-> FALSE, message |-> "", list |-> FALSE, messages |-> <<>>]
NoMpd ==
    [open |-> 0,
     calls |-> [k \in MpdCalls |-> NoCall],
     last |-> [called |-> FALSE, command |-> "", records |-> <<>>, ack |-> FALSE,
               out |-> NoOutcome]]
NoEntry == [present |-> FALSE, value |-> "", timeout |-> 0, expire |-> 0]
NoPromise == [kind |-> "none", value |-> "", expire |-> 0]
NoGet == [called |-> FALSE, at |-> 0, hit |-> FALSE, value |-> "", promise |-> NoPromise]
NoCache ==
    [now |-> 0, entry |-> NoEntry, timers |-> {}, nextId |-> 1, advances |-> 0,
     promise |-> NoPromise, last |-> NoGet]
PoolClients == {1, 2}
PoolCalls == {1, 2, 3}
Free == 0
NoExecute == [pc |-> "idle", client |-> Free, released |-> 0, outcome |-> "", trace |-> <<>>]
NoPool ==
    [clients |-> [c \in PoolClients |-> Free],
     calls |-> [k \in PoolCalls |-> NoExecute]]
NoSource == [id |-> "", event |-> "", retry |-> 0]
NoStream ==
    [constructed |-> FALSE, source |-> NoSource, timer |-> 0, pending |-> 0,
     queue |-> <<>>, cancelled |-> FALSE, late |-> 0]

InitHelpers ==
    /\ mpd = NoMpd
    /\ cache = NoCache
    /\ pool = NoPool
    /\ sse = NoStream

Init ==
    /\ phase = "loading"
    /\ router = {}
    /\ metaRoutes = <<>>
    /\ middlewares = <<>>
    /\ errorHandler = FALSE
    /\ now = 0
    /\ req = [r \in SeqReqs |-> IdleReq]
    /\ plugins = {}
    /\ pluginState = [i \in Instances |-> 0]
    /\ fs = NoFile
    /\ client = AbsentHeader
    /\ lookup = NoLookup
    /\ pg = NoPage
    /\ InitHelpers

Next ==
    \/ \E k \in RouteKeys, cb \in Callbacks : Shortcut(k.method, k.pattern, cb)
    \/ \E k \in RouteKeys, cb \in Callbacks, t \in Templates :
          RegisterRoute(k.method, k.pattern, cb, t)
    \/ \E p \in Priorities : RegisterMiddleware(p)
    \/ RegisterErrorHandler
    \/ Listen
    \/ Dispatch
    \/ Tick
    \/ \E r \in SeqReqs :
          \/ \E m \in RequestMethods, p \in RequestPaths : Receive(r, m, p)
          \/ MiddlewareReturns(r)
          \/ \E e \in MiddlewareErrors : MiddlewareRaises(r, e)
          \/ CallHandler(r)
          \/ \E o \in HandlerOutcomes, j \in BOOLEAN :
                HandlerReturns(r, o.result, o.status, j)
          \/ \E e \in Errors : HandlerRaises(r, e)
          \/ ViewReturns(r)
          \/ ViewRaises(r, PlainError)
          \/ ErrorHandlerReturns(r)
          \/ ErrorHandlerRaises(r)
          \/ Release(r)

Spec == Init /\ [][Next]_vars

(***************************************************************************)
(* Static resources: Server.serve and Server.#handleStatic.                *)
(***************************************************************************)
MsPerSecond == 1000
Mtimes == {0, 500, 1000}
StaticPattern == <<Lit("assets"), Param("file")>>
StaticPath == <<"assets", "logo.png">>
FileBytes == <<"bytes">>
FileNotFound == [status |-> NOT_FOUND, message |-> "File not found"]
IOFailure == [status |-> 0, message |-> "permission denied"]
\* A file is readable or not; a directory has an index.html or not.  (A file
\* deleted between stat and read is a change of the file system in between.)
FsStates ==
    {NoFile, [NoFile EXCEPT !.stat = "error", !.read = "error"]}
        \cup { [stat |-> "file", hasMtime |-> TRUE, mtime |-> m, mime |-> TRUE, read |-> rd] :
                 m \in Mtimes, rd \in {"ok", "error"} }
        \cup { [stat |-> "dir", hasMtime |-> TRUE, mtime |-> m, mime |-> FALSE, read |-> rd] :
                 m \in Mtimes, rd \in {"ok", "missing"} }
        \cup { [stat |-> "file", hasMtime |-> h, mtime |-> 0, mime |-> FALSE, read |-> "ok"] :
                 h \in BOOLEAN }
IfModifiedSince == {AbsentHeader, OtherHeader} \cup {HttpDate(m \div MsPerSecond) : m \in Mtimes}

\* stat.mtime.toUTCString(), line 259: the HTTP-date form has whole seconds.
ToUTCString(mtime) == HttpDate(mtime \div MsPerSecond)

\* Lines 147-153: server.serve(path)
Serve(pattern) ==
    /\ phase = "loading"
    /\ router' = RouterAdd(router, [method |-> "GET", pattern |-> pattern,
                                    callback |-> "handleStatic", template |-> NoTemplate])
    /\ UNCHANGED <<phase, metaRoutes, middlewares, errorHandler, now, req>>
    /\ UNCHANGED others

\* Lines 263-265 and 254-256: Deno.readFile is called and awaited.
ReadFile(c) == [Log(c, "readFile", 0) EXCEPT !.pc = "read"]

\* Lines 267-273: the catch block of #handleStatic.
StaticFailure(answer) == IF answer = "missing" THEN FileNotFound ELSE IOFailure

\* Mutant of StatReturns: the conditional header is ignored.
StatReturnsNoRevalidation(r, ims) ==
    /\ req[r].pc = "handler"
    /\ req[r].route.callback = "handleStatic"
    /\ fs.stat \in {"file", "dir"}
    /\ LET c == [Log(req[r], "stat", 0) EXCEPT
                    !.stat = fs, !.ifModifiedSince = ims,
                    !.headers.contentType = IF fs.stat = "dir" \/ fs.mime THEN "mime" ELSE @]
       IN  req' = [req EXCEPT ![r] =
                IF ~fs.hasMtime
                THEN ReadFile(c)
                ELSE ReadFile([c EXCEPT !.headers.lastModified = ToUTCString(fs.mtime)])]
    /\ UNCHANGED <<phase, router, metaRoutes, middlewares, errorHandler, now>>
    /\ UNCHANGED others

\* Lines 245-266: Deno.stat returned; the request carries `ims` as its
\* if-modified-since header.  A 304 returns undefined, which lines 206-215
\* leave alone (the static route has no template).
StatReturns(r, ims) ==
    /\ req[r].pc = "handler"
    /\ req[r].route.callback = "handleStatic"
    /\ fs.stat \in {"file", "dir"}
    /\ LET c == [Log(req[r], "stat", 0) EXCEPT
                    !.stat = fs, !.ifModifiedSince = ims,
                    !.headers.contentType = IF fs.stat = "dir" \/ fs.mime THEN "mime" ELSE @]
       IN  req' = [req EXCEPT ![r] =
                IF ~fs.hasMtime
                THEN ReadFile(c)
                ELSE IF ims = ToUTCString(fs.mtime)
                     THEN Finish([Log(c, "handlerDone", 0) EXCEPT
                                     !.status = NOT_MODIFIED, !.statusText = "Not Modified"])
                     ELSE ReadFile([c EXCEPT !.headers.lastModified = ToUTCString(fs.mtime)])]
    /\ UNCHANGED <<phase, router, metaRoutes, middlewares, errorHandler, now>>
    /\ UNCHANGED others

\* Mutant of StatRaises: every failure of Deno.stat is reported as Not-Found.
StatRaisesAlwaysNotFound(r) ==
    /\ req[r].pc = "handler"
    /\ req[r].route.callback = "handleStatic"
    /\ fs.stat \in {"missing", "error"}
    /\ req' = [req EXCEPT ![r] =
            Caught([Log(req[r], "handlerRaise", 0) EXCEPT !.io = fs.stat], FileNotFound)]
    /\ UNCHANGED <<phase, router, metaRoutes, middlewares, errorHandler, now>>
    /\ UNCHANGED others

\* Lines 245 and 267-273: Deno.stat raised.
StatRaises(r) ==
    /\ req[r].pc = "handler"
    /\ req[r].route.callback = "handleStatic"
    /\ fs.stat \in {"missing", "error"}
    /\ req' = [req EXCEPT ![r] =
            Caught([Log(req[r], "handlerRaise", 0) EXCEPT !.io = fs.stat],
                   StaticFailure(fs.stat))]
    /\ UNCHANGED <<phase, router, metaRoutes, middlewares, errorHandler, now>>
    /\ UNCHANGED others

\* Lines 255 and 265: Deno.readFile returned the bytes.
ReadReturns(r) ==
    /\ req[r].pc = "read"
    /\ fs.read = "ok"
    /\ req' = [req EXCEPT ![r] =
            Finish([Log(req[r], "handlerDone", 0) EXCEPT
                       !.result = FileBytes, !.body = FileBytes])]
    /\ UNCHANGED <<phase, router, metaRoutes, middlewares, errorHandler, now>>
    /\ UNCHANGED others

\* Lines 255, 265 and 267-273: Deno.readFile raised.
ReadRaises(r) ==
    /\ req[r].pc = "read"
    /\ fs.read # "ok"
    /\ req' = [req EXCEPT ![r] =
            Caught([Log(req[r], "handlerRaise", 0) EXCEPT !.io = fs.read],
                   StaticFailure(fs.read))]
    /\ UNCHANGED <<phase, router, metaRoutes, middlewares, errorHandler, now>>
    /\ UNCHANGED others

\* The file system changes under the server.
FsChange(new) ==
    /\ new # fs
    /\ fs' = new
    /\ UNCHANGED dispatcher
    /\ UNCHANGED <<plugins, pluginState, client, lookup, pg, helpers>>

\* The client keeps the Last-Modified value of the response it got.
ClientKeeps(r) ==
    /\ req[r].pc = "sent"
    /\ client # req[r].headers.lastModified
    /\ client' = req[r].headers.lastModified
    /\ UNCHANGED dispatcher
    /\ UNCHANGED <<plugins, pluginState, fs, lookup, pg, helpers>>

NextStatic ==
    \/ Serve(StaticPattern)
    \/ RegisterErrorHandler
    \/ Listen
    \/ \E new \in FsStates : FsChange(new)
    \/ \E r \in SeqReqs :
          \/ Receive(r, "GET", StaticPath)
          \/ CallHandler(r)
          \/ \E ims \in IfModifiedSince : StatReturns(r, ims)
          \/ StatRaises(r)
          \/ ReadReturns(r)
          \/ ReadRaises(r)
          \/ ErrorHandlerReturns(r)
          \/ ErrorHandlerRaises(r)
          \/ ClientKeeps(r)
          \/ Release(r)

SpecStatic == Init /\ [][NextStatic]_vars

(***************************************************************************)
(* The Router on its own: routes are added in any order and looked up.     *)
(***************************************************************************)
UsersActive == <<Lit("users"), Lit("active")>>
UserName == <<Lit("users"), Param("name")>>
UserPost == <<Lit("users"), Param("id"), Lit("posts"), Param("postId")>>
RouterPatterns == {UserId, UserName, UsersActive, UserPost}
RouterCallbacks == {"h1", "h2"}
RouterPaths ==
    { <<"users", "42">>, <<"users", "active">>, <<"users", "">>, <<"users">>,
      <<"users", "42", "posts", "7">>, <<"users", "active", "posts", "7">>, <<"ping">> }

\* Line 303 (and 290): this.#router.add(route)
RouterAddCall(entry) ==
    /\ Len(lookup.added) < MaxAdds
    /\ router' = RouterAdd(router, entry)
    /\ lookup' = [lookup EXCEPT !.added = Append(@, entry), !.direct = TRUE]
    /\ UNCHANGED <<phase, metaRoutes, middlewares, errorHandler, now, req>>
    /\ UNCHANGED <<plugins, pluginState, fs, client, pg, helpers>>

\* Line 198: this.#router.find(ctx.method, ctx.path)
RouterFindCall(method, path) ==
    /\ lookup' = [lookup EXCEPT !.asked = TRUE, !.method = method, !.path = path,
                                !.table = router, !.phase = phase, !.composes = 0,
                                !.answer = RouterFind(router, method, path)]
    /\ UNCHANGED dispatcher
    /\ UNCHANGED <<plugins, pluginState, fs, client, pg, helpers>>

NextRouter ==
    \/ \E pattern \in RouterPatterns, cb \in RouterCallbacks :
          RouterAddCall([method |-> "GET", pattern |-> pattern,
                         callback |-> cb, template |-> NoTemplate])
    \/ \E m \in RequestMethods, p \in RouterPaths : RouterFindCall(m, p)

SpecRouter == Init /\ [][NextRouter]_vars

(***************************************************************************)
(* Requests in flight together, and the plugins they share.                *)
(***************************************************************************)
ConcPaths == { <<"users", "42">>, <<"users", "7">>, <<"ping">> }
ConcRoutes == { [method |-> "GET", pattern |-> UserId, callback |-> "h1",
                 template |-> NoTemplate] }

\* A callback of request r calls a method of ctx[name] that changes the
\* instance's state (README, Plugins: ctx.redis.get(...)).
PluginCall(r, name) ==
    /\ req[r].pc = "handler"
    /\ \A i \in 1..Len(req[r].trace) : req[r].trace[i].ev # "plugin"
    /\ \E b \in req[r].plugins :
          /\ b[1] = name
          /\ pluginState[b[2]] < MaxPluginCalls
          /\ pluginState' = [pluginState EXCEPT ![b[2]] = @ + 1]
    /\ req' = [req EXCEPT ![r] = Log(req[r], "plugin", 0)]
    /\ UNCHANGED <<phase, router, metaRoutes, middlewares, errorHandler, now>>
    /\ UNCHANGED <<plugins, fs, client, lookup, pg, helpers>>

InitConc ==
    /\ phase = "loading"
    /\ router = ConcRoutes
    /\ metaRoutes = <<>>
    /\ middlewares = <<[priority |-> 1, id |-> 1]>>
    /\ errorHandler \in BOOLEAN
    /\ now = 0
    /\ req = [r \in ConcReqs |-> IdleReq]
    /\ plugins = {}
    /\ pluginState = [i \in Instances |-> 0]
    /\ fs = NoFile
    /\ client = AbsentHeader
    /\ lookup = NoLookup
    /\ pg = NoPage
    /\ InitHelpers

NextConc ==
    \/ \E n \in PluginNames, i \in Instances : RegisterPlugin(n, i)
    \/ Listen
    \/ Tick
    \/ \E r \in ConcReqs :
          \/ \E p \in ConcPaths : Receive(r, "GET", p)
          \/ MiddlewareReturns(r)
          \/ CallHandler(r)
          \/ \E n \in PluginNames : PluginCall(r, n)
          \/ \E o \in HandlerOutcomes : HandlerReturns(r, o.result, o.status, TRUE)
          \/ HandlerRaises(r, PlainError)
          \/ ErrorHandlerReturns(r)
          \/ Release(r)

SpecConc == InitConc /\ [][NextConc]_vars

\* The callbacks of request Steady complete, and the continuation after an
\* await runs once its promise has settled; nothing is assumed of any other
\* request, whose handler or middleware may never complete.
Steady == CHOOSE r \in ConcReqs : \A o \in ConcReqs : o <= r
SpecConcFair ==
    /\ SpecConc
    /\ WF_vars(MiddlewareReturns(Steady))
    /\ WF_vars(CallHandler(Steady))
    /\ WF_vars(\/ \E o \in HandlerOutcomes : HandlerReturns(Steady, o.result, o.status, TRUE)
               \/ HandlerRaises(Steady, PlainError))
    /\ WF_vars(ErrorHandlerReturns(Steady))

(***************************************************************************)
(* Composing again: declared routes, direct router.add calls (shortcuts),  *)
(* listen and dispatch in any order, with lookups in between.              *)
(***************************************************************************)
NextCompose ==
    \/ \E k \in RouteKeys, cb \in Callbacks, t \in Templates :
          RegisterRoute(k.method, k.pattern, cb, t)
    \/ \E k \in RouteKeys, cb \in Callbacks :
          RouterAddCall([method |-> k.method, pattern |-> k.pattern,
                         callback |-> cb, template |-> NoTemplate])
    \/ Listen
    \/ Dispatch
    \/ \E m \in RequestMethods, p \in RequestPaths : RouterFindCall(m, p)

SpecCompose == Init /\ [][NextCompose]_vars

(***************************************************************************)
(* paginate and calcEllipsisPages (src/unnamed/part_005).                  *)
(*                                                                         *)
(* A page list entry is a page number or the string "...".  A pageIndex    *)
(* argument is a number or a string of characters.                         *)
(***************************************************************************)
DefaultAround == 2
PageSizes == {1, 2}
Chars == {"0", "1", "2", "x"}
Digits == {"0", "1", "2"}
PageNumber(n) == [dots |-> FALSE, page |-> n]
Ellipsis == [dots |-> TRUE, page |-> 0]
NumberArg(n) == [str |-> FALSE, num |-> n, text |-> <<>>]
StringArg(t) == [str |-> TRUE, num |-> 0, text |-> t]
PageArgs ==
    {NumberArg(n) : n \in -1..(MaxRecords + 1)}
        \cup {StringArg(t) : t \in {<<>>} \cup [1..1 -> Chars] \cup [1..2 -> Chars]}

\* Array.from({ length: n }, (_, i) => first + i)
ArrayFrom(n, first) == [i \in 1..(IF n > 0 THEN n ELSE 0) |-> PageNumber(first + i - 1)]

\* Mutant of calcEllipsisPages: a list of exactly baseCount pages is abbreviated too.
calcEllipsisPagesStrict(totalPages, pageIndex, around) ==
    LET baseCount == around * 2 + 5
        surplus == baseCount - 2
        startIndex == 1 + 2 + around + 1
        endIndex == totalPages - 2 - around - 1
    IN  IF totalPages < baseCount
        THEN ArrayFrom(totalPages, 1)
        ELSE IF pageIndex < startIndex
        THEN ArrayFrom(surplus, 1) \o <<Ellipsis, PageNumber(totalPages)>>
        ELSE IF pageIndex > endIndex
        THEN <<PageNumber(1), Ellipsis>> \o ArrayFrom(surplus, totalPages - surplus + 1)
        ELSE <<PageNumber(1), Ellipsis>> \o ArrayFrom(around * 2 + 1, pageIndex - around)
                 \o <<Ellipsis, PageNumber(totalPages)>>

\* calcEllipsisPages, lines 7-24.
calcEllipsisPages(totalPages, pageIndex, around) ==
    LET baseCount == around * 2 + 5
        surplus == baseCount - 2
        startIndex == 1 + 2 + around + 1
        endIndex == totalPages - 2 - around - 1
    IN  IF totalPages <= baseCount
        THEN ArrayFrom(totalPages, 1)
        ELSE IF pageIndex < startIndex
        THEN ArrayFrom(surplus, 1) \o <<Ellipsis, PageNumber(totalPages)>>
        ELSE IF pageIndex > endIndex
        THEN <<PageNumber(1), Ellipsis>> \o ArrayFrom(surplus, totalPages - surplus + 1)
        ELSE <<PageNumber(1), Ellipsis>> \o ArrayFrom(around * 2 + 1, pageIndex - around)
                 \o <<Ellipsis, PageNumber(totalPages)>>

\* /^[1-9]\d*$/.test(text), line 35
IsPageNumberText(text) ==
    /\ Len(text) >= 1
    /\ text[1] \in Digits \ {"0"}
    /\ \A i \in 1..Len(text) : text[i] \in Digits

DigitValue(ch) == CASE ch = "0" -> 0 [] ch = "1" -> 1 [] ch = "2" -> 2

\* parseInt(text), line 38, of a text the pattern accepted
RECURSIVE ParseInt(_)
ParseInt(text) ==
    IF text = <<>> THEN 0
    ELSE 10 * ParseInt(SubSeq(text, 1, Len(text) - 1)) + DigitValue(text[Len(text)])

\* Math.ceil(a / b) for a >= 0 and b >= 1
Ceil(a, b) == (a + b - 1) \div b

Threw(status, message) ==
    [threw |-> TRUE, status |-> status, message |-> message,
     totalRecords |-> 0, totalPages |-> 0, pageIndex |-> 0, ellipsisPages |-> <<>>,
     startIndex |-> 0, endIndex |-> 0]

\* paginate, lines 33-50.
paginate(totalRecords, pageSize, pageArg) ==
    IF pageArg.str /\ ~IsPageNumberText(pageArg.text)
    THEN Threw(400, "Illegal page number")
    ELSE LET pageIndex == IF pageArg.str THEN ParseInt(pageArg.text) ELSE pageArg.num
             totalPages == Ceil(totalRecords, pageSize)
         IN  IF pageIndex > totalPages
             THEN Threw(400, "Page exceeded")
             ELSE [threw |-> FALSE, status |-> 0, message |-> "",
                   totalRecords |-> totalRecords, totalPages |-> totalPages,
                   pageIndex |-> pageIndex,
                   ellipsisPages |-> calcEllipsisPages(totalPages, pageIndex, DefaultAround),
                   startIndex |-> pageSize * (pageIndex - 1),
                   endIndex |-> pageSize * pageIndex]

\* One call of paginate.
Paginate(totalRecords, pageSize, pageArg) ==
    /\ pg' = [called |-> TRUE, totalRecords |-> totalRecords, pageSize |-> pageSize,
              pageArg |-> pageArg, out |-> paginate(totalRecords, pageSize, pageArg)]
    /\ UNCHANGED dispatcher
    /\ UNCHANGED <<plugins, pluginState, fs, client, lookup, helpers>>

NextPaginate ==
    \E n \in 0..MaxRecords, size \in PageSizes, arg \in PageArgs : Paginate(n, size, arg)

SpecPaginate == Init /\ [][NextPaginate]_vars

(***************************************************************************)
(* MpdClient, src/unnamed/part_001 lines 29-237.                           *)
(***************************************************************************)
MaxConns == 2
MaxReplyRecords == 2

\* What the engine's state is to the helper classes.
engine == <<dispatcher, plugins, pluginState, fs, client, lookup, pg>>

NumberArgument(n) == [given |-> TRUE, str |-> FALSE, num |-> n, text |-> <<>>]
StringArgument(t) == [given |-> TRUE, str |-> TRUE, num |-> 0, text |-> t]
States == {0, 1}
Ids == {0, 1}
LibraryPaths == { <<>>, <<"a">> }

\* The operations, lines 38-93: the command and argument each hands to sendCommand.
Op(command, argument) == [command |-> command, argument |-> argument]
getStatus == Op("status", NoArgument)
getPlaylist == Op("playlistinfo", NoArgument)
getLibrary(path) == Op("lsinfo", StringArgument(path))
playId(id) == Op("playid", NumberArgument(id))
setRepeat(state) == Op("repeat", NumberArgument(state))
setSingle(state) == Op("single", NumberArgument(state))
setRandom(state) == Op("random", NumberArgument(state))
MpdOps ==
    {getStatus, getPlaylist}
        \cup {getLibrary(path) : path \in LibraryPaths}
        \cup {playId(id) : id \in Ids}
        \cup {setRepeat(state) : state \in States}
        \cup {setSingle(state) : state \in States}
        \cup {setRandom(state) : state \in States}

\* `argument ? ... : ...`, line 116: undefined, 0 and "" are falsy.
Truthy(argument) ==
    /\ argument.given
    /\ IF argument.str THEN argument.text # <<>> ELSE argument.num # 0

\* `${argument}`: a string as it is, a number in decimal digits.
String(argument) ==
    IF argument.str THEN argument.text
    ELSE <<CHOOSE d \in Digits : DigitValue(d) = argument.num>>

\* Line 116: command "argument", or the bare command.
CommandLine(command, argument) ==
    IF Truthy(argument)
    THEN [command |-> command, quoted |-> TRUE, text |-> String(argument)]
    ELSE [command |-> command, quoted |-> FALSE, text |-> <<>>]

\* The lines of a reply: the greeting, `key: value` lines, and OK or ACK.
VersionLine == [kind |-> "version", key |-> "", value |-> ""]
EndLine == [kind |-> "end", key |-> "", value |-> ""]
ErrorLine(message) == [kind |-> "error", key |-> "", value |-> message]
DataLine(key, value) == [kind |-> "data", key |-> key, value |-> value]

\* The records a list reply is made of: each starts with its file or
\* directory line, its attributes follow.
MpdRecords ==
    { <<DataLine("file", "a.mp3")>>,
      <<DataLine("file", "b.mp3"), DataLine("Title", "b")>>,
      <<DataLine("directory", "d")>> }
MpdReplies == UNION {[1..n -> MpdRecords] : n \in 0..MaxReplyRecords}

RECURSIVE Flatten(_)
Flatten(records) ==
    IF records = <<>> THEN <<>> ELSE Head(records) \o Flatten(Tail(records))

ServerStream(records, ack) ==
    <<VersionLine>> \o Flatten(records)
        \o <<IF ack THEN ErrorLine("unknown command") ELSE EndLine>>

IsDataLine(line) == line.kind = "data"

\* Lines 120-134: read up to OK, skip the greeting, raise on ACK.
ReadLines(stream) ==
    LET stop == CHOOSE i \in 1..Len(stream) :
                    /\ stream[i].kind \in {"end", "error"}
                    /\ \A j \in 1..(i - 1) : stream[j].kind \notin {"end", "error"}
    IN  [threw |-> stream[stop].kind = "error",
         message |-> IF stream[stop].kind = "error" THEN stream[stop].value ELSE "",
         result |-> SelectSeq(SubSeq(stream, 1, stop - 1), IsDataLine)]

ToLowerCase(key) == CASE key = "Title" -> "title" [] OTHER -> key

\* parseMessageLine, lines 172-227, for the keys of MpdRecords.
parseMessageLine(line) ==
    IF line.key = "directory"
    THEN { <<"file", line.value>>, <<"isDir", "true">> }
    ELSE { <<ToLowerCase(line.key), line.value>> }

\* Object.assign(target, source)
ObjectAssign(target, source) ==
    {p \in target : \A q \in source : q[1] # p[1]} \cup source

\* parseMessageObject, lines 143-150.
parseMessageObject(messageLines) ==
    LET f[i \in 0..Len(messageLines)] ==
            IF i = 0 THEN {}
            ELSE ObjectAssign(f[i - 1], parseMessageLine(messageLines[i]))
    IN  [threw |-> FALSE, message |-> "", list |-> FALSE,
         messages |-> <<f[Len(messageLines)]>>]

TypeError == "TypeError: Cannot read properties of undefined"

\* parseMessageList, lines 153-169: messageLines[0] is undefined for an
\* empty reply and reading its substring raises; otherwise the key of the
\* first line starts each message.
parseMessageList(messageLines) ==
    IF messageLines = <<>>
    THEN [threw |-> TRUE, message |-> TypeError, list |-> TRUE, messages |-> <<>>]
    ELSE LET delimiter == messageLines[1].key
             f[i \in 0..Len(messageLines)] ==
                 IF i = 0 THEN <<>>
                 ELSE LET line == messageLines[i]
                          result == IF line.key = delimiter
                                    THEN Append(f[i - 1], {})
                                    ELSE f[i - 1]
                      IN  IF result = <<>> THEN result
                          ELSE [result EXCEPT
                                   ![Len(result)] = ObjectAssign(@, parseMessageLine(line))]
         IN  [threw |-> FALSE, message |-> "", list |-> TRUE,
              messages |-> f[Len(messageLines)]]

\* Lines 120-139: what sendCommand returns or raises for a reply.
Reply(command, stream) ==
    LET read == ReadLines(stream)
    IN  IF read.threw
        THEN [threw |-> TRUE, message |-> read.message, list |-> FALSE, messages |-> <<>>]
        ELSE IF command \in {"playlistinfo", "lsinfo"}
             THEN parseMessageList(read.result)
             ELSE parseMessageObject(read.result)

\* sendCommand, lines 115-118, with getConnection, lines 230-235: every call
\* connects, whatever connections are open, and writes its command line.
SendCommand(k, op) ==
    /\ mpd.calls[k].pc = "idle"
    /\ mpd.open < MaxConns
    /\ mpd' = [mpd EXCEPT
                  !.open = @ + 1,
                  !.calls[k] = [pc |-> "reading", command |-> op.command,
                                argument |-> op.argument,
                                line |-> CommandLine(op.command, op.argument)]]
    /\ UNCHANGED engine
    /\ UNCHANGED <<cache, pool, sse>>

\* sendCommand, lines 120-139: the reply has arrived and is read and parsed.
\* The code never closes the connection; leaving the read loop cancels
\* conn.readable, which releases the connection or not (closes).
ReplyArrives(k, records, ack, closes) ==
    /\ mpd.calls[k].pc = "reading"
    /\ ack => records = <<>>
    /\ mpd' = [mpd EXCEPT
                  !.open = IF closes THEN @ - 1 ELSE @,
                  !.calls[k] = NoCall,
                  !.last = [called |-> TRUE, command |-> mpd.calls[k].command,
                            records |-> records, ack |-> ack,
                            out |-> Reply(mpd.calls[k].command, ServerStream(records, ack))]]
    /\ UNCHANGED engine
    /\ UNCHANGED <<cache, pool, sse>>

NextMpd ==
    \E k \in MpdCalls :
        \/ \E op \in MpdOps : SendCommand(k, op)
        \/ \E records \in MpdReplies, ack \in BOOLEAN, closes \in BOOLEAN :
                ReplyArrives(k, records, ack, closes)

SpecMpd == Init /\ [][NextMpd]_vars

(***************************************************************************)
(* Cache, src/unnamed/part_001 lines 245-292, for one key.  An entry's     *)
(* timeout and expire are 0 while the property is undefined.  `promise`    *)
(* remembers what the last set, ttl or delete call said of the key.        *)
(***************************************************************************)
MaxAdvances == 3
MaxTimers == 2
Values == {"a", "b"}
Ttls == {1, 2}
Delays == {1, MsPerSecond}
NoTtl == 0

\* setTimeout(callback, delay): a new timer, due `delay` milliseconds from now.
SetTimeout(c, delay) ==
    [c EXCEPT !.timers = @ \cup {[id |-> c.nextId, due |-> c.now + delay]},
              !.nextId = @ + 1]

\* clearTimeout(id); an undefined or used id does nothing.
ClearTimeout(c, id) == [c EXCEPT !.timers = {t \in @ : t.id # id}]

\* delete, lines 283-290.
Delete(c) ==
    IF c.entry.present
    THEN [(IF c.entry.expire # 0 THEN ClearTimeout(c, c.entry.timeout) ELSE c)
             EXCEPT !.entry = NoEntry]
    ELSE c

\* Lines 254-257 and 265-266: the timer runs `ttl` milliseconds from now,
\* the expire instant is `ttl` seconds from now.
Schedule(c, ttl) ==
    [SetTimeout(c, ttl) EXCEPT
        !.entry.timeout = c.nextId,
        !.entry.expire = c.now + ttl * MsPerSecond]

\* set, lines 249-259: the entry under the key, if any, is written over in
\* place and keeps the properties the call does not assign.
CacheSet(value, ttl) ==
    /\ ttl # NoTtl => cache.nextId <= MaxTimers
    /\ LET data == [cache.entry EXCEPT !.present = TRUE, !.value = value]
           cleared == [ClearTimeout(cache, data.timeout) EXCEPT !.entry = data]
           stored == IF ttl # NoTtl THEN Schedule(cleared, ttl) ELSE cleared
       IN  cache' = [stored EXCEPT
                        !.promise = IF ttl # NoTtl
                                    THEN [kind |-> "until", value |-> value,
                                          expire |-> cache.now + ttl * MsPerSecond]
                                    ELSE [kind |-> "always", value |-> value, expire |-> 0]]
    /\ UNCHANGED engine
    /\ UNCHANGED <<mpd, pool, sse>>

\* ttl, lines 261-270.
CacheTtl(ttl) ==
    /\ cache.nextId <= MaxTimers
    /\ cache' =
          IF cache.entry.present
          THEN [Schedule(ClearTimeout(cache, cache.entry.timeout), ttl) EXCEPT
                   !.promise = [kind |-> "until", value |-> cache.entry.value,
                                expire |-> cache.now + ttl * MsPerSecond]]
          ELSE cache
    /\ cache' # cache
    /\ UNCHANGED engine
    /\ UNCHANGED <<mpd, pool, sse>>

\* get, lines 272-281.
CacheGet ==
    /\ LET data == cache.entry
           hit == data.present /\ (data.expire = 0 \/ data.expire > cache.now)
           after == IF data.present /\ ~hit THEN Delete(cache) ELSE cache
       IN  cache' = [after EXCEPT
                        !.last = [called |-> TRUE, at |-> cache.now, hit |-> hit,
                                  value |-> IF hit THEN data.value ELSE "",
                                  promise |-> cache.promise]]
    /\ UNCHANGED engine
    /\ UNCHANGED <<mpd, pool, sse>>

\* delete, called by the user of the cache.
CacheDelete ==
    /\ cache.entry.present
    /\ cache' = [Delete(cache) EXCEPT !.promise = NoPromise]
    /\ UNCHANGED engine
    /\ UNCHANGED <<mpd, pool, sse>>

\* Lines 255 and 265: a timer that is due runs () => this.delete(key).
TimerFires(t) ==
    /\ t \in cache.timers
    /\ t.due <= cache.now
    /\ cache' = Delete([cache EXCEPT !.timers = @ \ {t}])
    /\ UNCHANGED engine
    /\ UNCHANGED <<mpd, pool, sse>>

\* Date.now() advances; a timer that is due runs before it advances further.
Advance(delay) ==
    /\ cache.advances < MaxAdvances
    /\ \A t \in cache.timers : t.due > cache.now
    /\ cache' = [cache EXCEPT !.now = @ + delay, !.advances = @ + 1]
    /\ UNCHANGED engine
    /\ UNCHANGED <<mpd, pool, sse>>

NextCache ==
    \/ \E value \in Values, ttl \in Ttls \cup {NoTtl} : CacheSet(value, ttl)
    \/ \E ttl \in Ttls : CacheTtl(ttl)
    \/ CacheGet
    \/ CacheDelete
    \/ \E t \in cache.timers : TimerFires(t)
    \/ \E delay \in Delays : Advance(delay)

SpecCache == Init /\ [][NextCache]_vars

(***************************************************************************)
(* Postgres, src/Postgres.ts.  A pooled client is Free or held by the      *)
(* execute call whose number it carries.                                   *)
(***************************************************************************)
\* client.release(), line 15.
ReleaseClient(p, k) ==
    [p EXCEPT !.clients[p.calls[k].client] = Free,
              !.calls[k].released = @ + 1,
              !.calls[k].trace = Append(@, "release")]

\* Line 11: execute is called and awaits this.pool.connect().
Execute(k) ==
    /\ pool.calls[k].pc = "idle"
    /\ pool' = [pool EXCEPT !.calls[k] = [NoExecute EXCEPT !.pc = "connect"]]
    /\ UNCHANGED engine
    /\ UNCHANGED <<mpd, cache, sse>>

\* Lines 11-13: the pool hands out a free client; the query is sent.
ConnectReturns(k, c) ==
    /\ pool.calls[k].pc = "connect"
    /\ pool.clients[c] = Free
    /\ pool' = [pool EXCEPT !.clients[c] = k,
                            !.calls[k].client = c,
                            !.calls[k].pc = "query",
                            !.calls[k].trace = @ \o <<"acquire", "query">>]
    /\ UNCHANGED engine
    /\ UNCHANGED <<mpd, cache, sse>>

\* Line 11: the pool could not connect; no client was acquired.
ConnectRaises(k) ==
    /\ pool.calls[k].pc = "connect"
    /\ pool' = [pool EXCEPT !.calls[k].pc = "done",
                            !.calls[k].outcome = "threw",
                            !.calls[k].trace = Append(@, "throw")]
    /\ UNCHANGED engine
    /\ UNCHANGED <<mpd, cache, sse>>

\* Lines 13-16: the query returned; finally releases, then the result is returned.
QueryReturns(k) ==
    /\ pool.calls[k].pc = "query"
    /\ pool' = [ReleaseClient(pool, k) EXCEPT
                    !.calls[k].pc = "done",
                    !.calls[k].outcome = "returned",
                    !.calls[k].trace = Append(@, "return")]
    /\ UNCHANGED engine
    /\ UNCHANGED <<mpd, cache, sse>>

\* Mutant of QueryRaises: the release is skipped when the query fails.
QueryRaisesWithoutRelease(k) ==
    /\ pool.calls[k].pc = "query"
    /\ pool' = [pool EXCEPT
                    !.calls[k].pc = "done",
                    !.calls[k].outcome = "threw",
                    !.calls[k].trace = Append(@, "throw")]
    /\ UNCHANGED engine
    /\ UNCHANGED <<mpd, cache, sse>>

\* Lines 13-16: the query raised; finally releases, then the failure goes on
\* to the caller.
QueryRaises(k) ==
    /\ pool.calls[k].pc = "query"
    /\ pool' = [ReleaseClient(pool, k) EXCEPT
                    !.calls[k].pc = "done",
                    !.calls[k].outcome = "threw",
                    !.calls[k].trace = Append(@, "throw")]
    /\ UNCHANGED engine
    /\ UNCHANGED <<mpd, cache, sse>>

\* The caller has taken the result or the failure.
Settled(k) ==
    /\ pool.calls[k].pc = "done"
    /\ pool' = [pool EXCEPT !.calls[k] = NoExecute]
    /\ UNCHANGED engine
    /\ UNCHANGED <<mpd, cache, sse>>

NextPostgres ==
    \E k \in PoolCalls :
        \/ Execute(k)
        \/ \E c \in PoolClients : ConnectReturns(k, c)
        \/ ConnectRaises(k)
        \/ QueryReturns(k)
        \/ QueryRaises(k)
        \/ Settled(k)

SpecPostgres == Init /\ [][NextPostgres]_vars

(***************************************************************************)
(* EventResponse, src/EventResponse.ts; the constructor of EventStream,    *)
(* src/unnamed/part_002, is the same code.  An option left out is "" or 0, *)
(* which the code treats as it treats an absent one.                       *)
(***************************************************************************)
MaxPending == 2
MaxQueued == 2
Sources == [id : {"", "7"}, event : {"", "tick"}, retry : {0, 5}]
DataValues == {"x", "y"}

Field(name, text, num) == [name |-> name, text |-> text, num |-> num]

\* getSource, lines 22-29: the lines of one message, once data() has resolved.
getSource(source, data) ==
    (IF source.id # "" THEN <<Field("id", source.id, 0)>> ELSE <<>>)
        \o (IF source.event # "" THEN <<Field("event", source.event, 0)>> ELSE <<>>)
        \o (IF source.retry # 0 THEN <<Field("retry", "", source.retry)>> ELSE <<>>)
        \o <<Field("data", data, 0)>>

\* Lines 20-41: the constructor; start(controller) sets the interval timer.
NewEventResponse(source) ==
    /\ ~sse.constructed
    /\ sse' = [sse EXCEPT !.constructed = TRUE, !.source = source, !.timer = 1]
    /\ UNCHANGED engine
    /\ UNCHANGED <<mpd, cache, pool>>

\* Lines 34-35 and 27: the interval has passed; the callback calls data() and awaits it.
IntervalFires ==
    /\ sse.timer > 0
    /\ sse.pending < MaxPending
    /\ sse' = [sse EXCEPT !.pending = @ + 1]
    /\ UNCHANGED engine
    /\ UNCHANGED <<mpd, cache, pool>>

\* Lines 27-28 and 35: data() resolved; the callback goes on and calls
\* controller.enqueue, whether or not the stream has been cancelled since.
\* On a cancelled stream the controller takes nothing.
DataResolves(data) ==
    /\ sse.pending > 0
    /\ ~sse.cancelled => Len(sse.queue) < MaxQueued
    /\ sse' = IF sse.cancelled
              THEN [sse EXCEPT !.pending = @ - 1, !.late = @ + 1]
              ELSE [sse EXCEPT !.pending = @ - 1,
                               !.queue = Append(@, getSource(sse.source, data))]
    /\ UNCHANGED engine
    /\ UNCHANGED <<mpd, cache, pool>>

\* The consumer of the response body reads a message.
ReadMessage ==
    /\ sse.queue # <<>>
    /\ sse' = [sse EXCEPT !.queue = Tail(@)]
    /\ UNCHANGED engine
    /\ UNCHANGED <<mpd, cache, pool>>

\* Lines 38-40: cancel() clears the interval timer; the queue is dropped.
Cancel ==
    /\ sse.constructed
    /\ ~sse.cancelled
    /\ sse' = [sse EXCEPT !.cancelled = TRUE,
                          !.timer = IF @ > 0 THEN 0 ELSE @,
                          !.queue = <<>>]
    /\ UNCHANGED engine
    /\ UNCHANGED <<mpd, cache, pool>>

NextEvents ==
    \/ \E source \in Sources : NewEventResponse(source)
    \/ IntervalFires
    \/ \E data \in DataValues : DataResolves(data)
    \/ ReadMessage
    \/ Cancel

SpecEvents == Init /\ [][NextEvents]_vars

(***************************************************************************)
(* Reading a request's history.                                            *)
(***************************************************************************)
Has(c, name) == \E i \in 1..Len(c.trace) : c.trace[i].ev = name
Count(c, name) == Cardinality({i \in 1..Len(c.trace) : c.trace[i].ev = name})
InFlight(c) == c.pc # "idle"
RaiseEvents == {"notFound", "mwRaise", "handlerRaise", "viewRaise", "jsxRaise"}
CallbackEvents == {"mw", "handler", "view", "jsx"}
ExactRoutes(c) == {e \in router : e.method = c.method /\ Matches(e.pattern, c.path)}
FallbackRoutes(c) == {e \in router : e.method = ALL /\ Matches(e.pattern, c.path)}
DeclaredOr500(e) == IF e.status = 0 THEN 500 ELSE e.status

(***************************************************************************)
(* C1.  The dispatcher looks the route up under the request's own method,  *)
(* then under ALL; when both lookups find nothing the request fails as     *)
(* Not-Found: the failure is the 404 route-not-found error, no middleware  *)
(* and no route handler has run, and a response that is sent has status    *)
(* 404.                                                                    *)
(***************************************************************************)
C1_NotFoundWhenBothLookupsMiss ==
    \A r \in DOMAIN req :
        LET c == req[r]
            exact == RouterFind(router, c.method, c.path)
            fallback == RouterFind(router, ALL, c.path)
        IN  InFlight(c) =>
              /\ exact.found => c.route = exact.entry
              /\ (~exact.found /\ fallback.found) => c.route = fallback.entry
              /\ (~exact.found /\ ~fallback.found) =>
                    /\ c.route = NoRoute
                    /\ c.raised.status = 404
                    /\ c.raised.message = "Route not found"
                    /\ \A i \in 1..Len(c.trace) : c.trace[i].ev \notin CallbackEvents
                    /\ c.pc = "sent" => c.built.status = 404

C1_Witness ==
    \E r \in DOMAIN req :
        /\ req[r].pc = "sent"
        /\ router # {}
        /\ ExactRoutes(req[r]) = {} /\ FallbackRoutes(req[r]) = {}
        /\ req[r].built.status = 404

(***************************************************************************)
(* C2.  Where an ALL route matches the path, a request is dispatched to    *)
(* the route of its own method when one is registered for the path, and to *)
(* the ALL route otherwise, whichever was registered first.                *)
(***************************************************************************)
C2_AllIsTheFallback ==
    \A r \in DOMAIN req :
        LET c == req[r]
        IN  (InFlight(c) /\ FallbackRoutes(c) # {}) =>
              /\ c.route \in router
              /\ Matches(c.route.pattern, c.path)
              /\ c.route.method = (IF ExactRoutes(c) # {} THEN c.method ELSE ALL)

C2_Witness ==
    \E r \in DOMAIN req :
        /\ req[r].pc = "handler"
        /\ req[r].method = "POST"
        /\ req[r].route.method = ALL
        /\ \E e \in router : e.method = "GET" /\ e.pattern = req[r].route.pattern

(***************************************************************************)
(* C3.  The middleware entries a request invokes are invoked in ascending  *)
(* priority, entries of one priority in their registration order, and all  *)
(* of them have been invoked when the route handler is called.             *)
(***************************************************************************)
PriorityOf(id) ==
    (CHOOSE m \in {middlewares[k] : k \in 1..Len(middlewares)} : m.id = id).priority

RunsBefore(a, b) ==
    \/ PriorityOf(a) < PriorityOf(b)
    \/ PriorityOf(a) = PriorityOf(b) /\ a < b

C3_MiddlewareOrder ==
    \A r \in DOMAIN req :
        LET t == req[r].trace
            calls == {i \in 1..Len(t) : t[i].ev = "mw"}
        IN  /\ \A i \in calls, j \in calls : i < j => RunsBefore(t[i].id, t[j].id)
            /\ Has(req[r], "handler") =>
                  {t[i].id : i \in calls} = {middlewares[k].id : k \in 1..Len(middlewares)}

C3_Witness ==
    \E r \in DOMAIN req :
        /\ Has(req[r], "handler")
        /\ Len(middlewares) >= 2
        /\ \E a \in 1..Len(middlewares), b \in 1..Len(middlewares) :
              /\ a < b
              /\ middlewares[a].id > middlewares[b].id
              /\ middlewares[a].priority < middlewares[b].priority

(***************************************************************************)
(* C4.  Within a request each middleware completes before anything else is *)
(* called, every middleware has returned before the route handler is       *)
(* called, and after a middleware raises no middleware, handler or         *)
(* renderer is called: the failure goes to the catch block.                *)
(***************************************************************************)
C4_MiddlewareSequential ==
    \A r \in DOMAIN req :
        LET t == req[r].trace
        IN  \A i \in 1..Len(t) :
              /\ (t[i].ev = "mw" /\ i < Len(t)) =>
                    t[i + 1].ev \in {"mwDone", "mwRaise"} /\ t[i + 1].id = t[i].id
              /\ t[i].ev = "handler" =>
                    /\ Cardinality({j \in 1..i : t[j].ev = "mwDone"}) = Len(middlewares)
                    /\ \A j \in 1..i : t[j].ev # "mwRaise"
              /\ t[i].ev = "mwRaise" =>
                    /\ i < Len(t) /\ t[i + 1].ev = "log"
                    /\ \A j \in (i + 1)..Len(t) : t[j].ev \notin CallbackEvents

C4_Witness ==
    \E r \in DOMAIN req :
        /\ req[r].pc = "sent"
        /\ Has(req[r], "mwDone") /\ Has(req[r], "mwRaise")

C6_BodyIsErrorMessage ==
    \A r \in DOMAIN req :
        LET c == req[r]
        IN  (c.pc = "sent" /\ ~errorHandler
                /\ (Has(c, "mwRaise") \/ Has(c, "handlerRaise"))) =>
              /\ c.built.status = DeclaredOr500(c.raised)
              /\ c.built.body = <<c.raised.message>>

(***************************************************************************)
(* C6, amended.  The body is the error's message, or the text              *)
(* "Internal Server Error" when the error's message is empty.              *)
(***************************************************************************)
C6_BodyIsMessageOrDefault ==
    \A r \in DOMAIN req :
        LET c == req[r]
        IN  (c.pc = "sent" /\ ~errorHandler
                /\ (Has(c, "mwRaise") \/ Has(c, "handlerRaise"))) =>
              /\ c.built.status = DeclaredOr500(c.raised)
              /\ c.built.body = (IF c.raised.message = ""
                                 THEN <<"Internal Server Error">>
                                 ELSE <<c.raised.message>>)

C6_Witness ==
    \E r \in DOMAIN req :
        /\ req[r].pc = "sent" /\ ~errorHandler
        /\ Has(req[r], "handlerRaise")
        /\ req[r].raised.status = 0
        /\ req[r].built = [status |-> 500, body |-> <<"boom">>, time |-> req[r].responseTime]

C8_ParamsAssignedOnce ==
    \A r \in DOMAIN req :
        LET c == req[r]
            t == c.trace
        IN  /\ Count(c, "params") <= 1
            /\ \A i \in 1..Len(t) :
                  /\ t[i].ev = "matched" => (i < Len(t) /\ t[i + 1].ev = "params")
                  /\ t[i].ev = "params" => (i > 1 /\ t[i - 1].ev = "matched")
                  /\ t[i].ev \in CallbackEvents => \E j \in 1..(i - 1) : t[j].ev = "params"
            /\ Has(c, "notFound") => (~Has(c, "params") /\ c.params = {})
            /\ Has(c, "params") => c.params = ParamsOf(c.route.pattern, c.path)

C8_Witness ==
    \E r \in DOMAIN req :
        /\ req[r].pc = "sent"
        /\ Has(req[r], "mwDone")
        /\ req[r].params = {<<"id", "42">>}

(***************************************************************************)
(* C9.  A handler's result becomes the body by one of three rules: a route *)
(* with a template renders the result through the template (whatever the   *)
(* result is); otherwise a markup node is rendered behind the document     *)
(* declaration; otherwise the result is the body.                          *)
(***************************************************************************)
C9_PostProcessing ==
    \A r \in DOMAIN req :
        LET c == req[r]
        IN  (c.pc = "sent" /\ ~Has(c, "log")) =>
              /\ c.built.body =
                    (IF c.route.template # NoTemplate
                     THEN <<"view", c.route.template>> \o c.result
                     ELSE IF c.result = NodeBody
                          THEN <<"<!DOCTYPE html>", "jsx">> \o c.result
                          ELSE c.result)
              /\ Count(c, "view") + Count(c, "jsx") <= 1
              /\ Has(c, "view") <=> c.route.template # NoTemplate

C9_Witness ==
    \E r \in DOMAIN req :
        /\ req[r].pc = "sent" /\ ~Has(req[r], "log")
        /\ req[r].route.template # NoTemplate
        /\ req[r].result = NodeBody
        /\ req[r].built.body = <<"view", "index.html", "node">>

(***************************************************************************)
(* C10.  Every response carries the x-response-time header, a number of    *)
(* milliseconds that is not negative followed by "ms", stamped after the   *)
(* body was produced and right before the response is built.               *)
(***************************************************************************)
C10_ResponseTimeHeader ==
    \A r \in DOMAIN req :
        LET c == req[r]
            t == c.trace
        IN  c.pc = "sent" =>
              /\ c.built.time.unit = "ms"
              /\ c.built.time.ms \in Nat
              /\ c.built.time.ms <= now - c.time
              /\ Len(t) >= 2
              /\ t[Len(t) - 1].ev = "stamp" /\ t[Len(t)].ev = "build"
              /\ Count(c, "stamp") = 1 /\ Count(c, "build") = 1

C10_Witness ==
    \E r \in DOMAIN req :
        /\ req[r].pc = "sent"
        /\ Has(req[r], "log")
        /\ req[r].built.time = [ms |-> 1, unit |-> "ms"]

(***************************************************************************)
(* The stages of a request, read from its history.                         *)
(***************************************************************************)
\* created 1, matched 2, middleware-run 3, handled 4, rendered-or-raw 5,
\* errored 6, sent 7.
Stages ==
    [ created |-> 1, plugins |-> 1,
      matched |-> 2, params |-> 2, notFound |-> 2,
      mw |-> 3, mwDone |-> 3, mwRaise |-> 3,
      handler |-> 4, handlerDone |-> 4, handlerRaise |-> 4,
      view |-> 5, viewDone |-> 5, viewRaise |-> 5, jsx |-> 5, jsxRaise |-> 5,
      log |-> 6, errorHandler |-> 6, errorHandlerDone |-> 6, errorHandlerRaise |-> 6,
      stamp |-> 7, build |-> 7 ]
StageOf(name) == Stages[name]
\* The place of an event inside its stage: the start of the stage is 1.
Places ==
    [ created |-> 1, plugins |-> 2,
      matched |-> 1, params |-> 2, notFound |-> 1,
      mw |-> 1, mwDone |-> 2, mwRaise |-> 2,
      handler |-> 1, handlerDone |-> 2, handlerRaise |-> 2,
      view |-> 1, viewDone |-> 2, viewRaise |-> 2, jsx |-> 1, jsxRaise |-> 2,
      log |-> 1, errorHandler |-> 2, errorHandlerDone |-> 3, errorHandlerRaise |-> 3,
      stamp |-> 1, build |-> 2 ]
PlaceOf(name) == Places[name]
\* Event b may follow event a: a later stage, or further inside the same
\* stage; the middleware stage alone has one start per middleware.
MayFollow(a, b) ==
    \/ StageOf(a) < StageOf(b)
    \/ StageOf(a) = StageOf(b) /\ PlaceOf(a) < PlaceOf(b)
    \/ a = "mwDone" /\ b = "mw"
LastEvent(c) == c.trace[Len(c.trace)].ev

C20_LoggedBeforeConversion ==
    \A r \in DOMAIN req :
        LET c == req[r]
            t == c.trace
        IN  /\ \A i \in 1..Len(t) :
                  t[i].ev \in RaiseEvents => i < Len(t) /\ t[i + 1].ev = "log"
            /\ \A i \in 1..Len(t) :
                  t[i].ev = "errorHandler" => i > 1 /\ t[i - 1].ev = "log"
            /\ (c.raised # NoError \/ c.error # NoError) => Has(c, "log")
            /\ (Has(c, "build") /\ c.raised # NoError) =>
                  /\ t[Len(t) - 1].ev = "stamp"
                  /\ \E i \in 1..(Len(t) - 2) : t[i].ev = "log"

C20_Witness ==
    \E r \in DOMAIN req :
        /\ req[r].pc = "sent"
        /\ Has(req[r], "handlerRaise")
        /\ Has(req[r], "log")
        /\ Has(req[r], "errorHandlerDone")

\* C18: for 1 <= pageIndex <= totalPages the ellipsis page list paginate
\* returns starts with page 1, ends with page totalPages, contains
\* pageIndex, has strictly increasing page numbers, has totalPages entries
\* and no ellipsis when totalPages <= 9 and exactly 9 entries otherwise, and
\* has an ellipsis only where at least one page number is skipped.
C18_EllipsisPages ==
    (pg.called /\ ~pg.out.threw /\ 1 <= pg.out.pageIndex /\ pg.out.pageIndex <= pg.out.totalPages) =>
        LET list == pg.out.ellipsisPages
            total == pg.out.totalPages
        IN  /\ list[1] = PageNumber(1)
            /\ list[Len(list)] = PageNumber(total)
            /\ \E i \in 1..Len(list) : list[i] = PageNumber(pg.out.pageIndex)
            /\ \A i, j \in 1..Len(list) :
                  (i < j /\ ~list[i].dots /\ ~list[j].dots) => list[i].page < list[j].page
            /\ Len(list) = IF total <= 9 THEN total ELSE 9
            /\ total <= 9 => \A i \in 1..Len(list) : list[i] = PageNumber(i)
            /\ \A i \in 1..Len(list) :
                  list[i].dots =>
                      /\ 1 < i /\ i < Len(list)
                      /\ ~list[i - 1].dots /\ ~list[i + 1].dots
                      /\ list[i + 1].page - list[i - 1].page >= 2

C18_Witness ==
    /\ pg.called
    /\ ~pg.out.threw
    /\ pg.out.totalPages > 9
    /\ pg.out.pageIndex >= 1
    /\ Cardinality({i \in 1..Len(pg.out.ellipsisPages) : pg.out.ellipsisPages[i].dots}) = 2

(***************************************************************************)
(* The Router's answers.                                                   *)
(***************************************************************************)
\* The routes of the asked method, in the table as it was when asked, whose
\* pattern the asked path matches.
Candidates == {e \in lookup.table : e.method = lookup.method /\ Matches(e.pattern, lookup.path)}
\* Another matching route has a literal segment where e first differs from it.
Shadowed(e) ==
    \E d \in Candidates : Shape(d.pattern) # Shape(e.pattern) /\ PreferredOver(d.pattern, e.pattern)
ParamPositions(pattern) == {i \in 1..Len(pattern) : pattern[i].kind = "param"}

\* C16 as stated: every registered route the path matches is the one returned.
C16_EveryMatchingRouteReturned ==
    lookup.asked => \A e \in Candidates : lookup.answer.found /\ lookup.answer.entry = e

\* C16 (amended): for every registered (method, pattern) pair and every path
\* matching the pattern, the router returns that pair's handler, unless
\* another matching route of that method has a literal segment where the
\* two patterns first differ (then that one is returned); params bind each
\* :name to exactly the corresponding path segment and hold no other key; a
\* parameter segment matches any single non-empty segment; a path matching
\* no route yields none.
C16_FindReturnsRouteAndParams ==
    lookup.asked =>
        LET a == lookup.answer
            path == lookup.path
        IN  /\ \A e \in Candidates : ~Shadowed(e) => (a.found /\ a.entry = e)
            /\ a.found => a.entry \in Candidates
            /\ a.found =>
                  /\ \A i \in ParamPositions(a.entry.pattern) :
                        <<a.entry.pattern[i].name, path[i]>> \in a.params /\ path[i] # ""
                  /\ \A b \in a.params :
                        \E i \in ParamPositions(a.entry.pattern) :
                            b = <<a.entry.pattern[i].name, path[i]>>
            /\ \A e \in lookup.table :
                  ( /\ e.method = lookup.method
                    /\ Len(e.pattern) = Len(path)
                    /\ \A i \in 1..Len(path) :
                          \/ e.pattern[i].kind = "param" /\ path[i] # ""
                          \/ e.pattern[i].kind = "lit" /\ e.pattern[i].name = path[i] )
                  => a.found
            /\ Candidates = {} => (~a.found /\ a.entry = NoRoute /\ a.params = {})

C16_Witness ==
    /\ lookup.asked
    /\ lookup.answer.found
    /\ lookup.answer.entry.pattern = UserPost
    /\ lookup.answer.params = {<<"id", "42">>, <<"postId", "7">>}

\* C17: when a literal route and a parameter route of the same method and
\* depth both match the path, the router returns the literal route, in
\* whichever order the two were registered.
C17_LiteralPrecedence ==
    lookup.asked =>
        \A lit, par \in Candidates :
            ( /\ Len(lit.pattern) = Len(par.pattern)
              /\ \E i \in 1..Len(lit.pattern) :
                    /\ lit.pattern[i].kind = "lit" /\ par.pattern[i].kind = "param"
                    /\ \A j \in 1..(i - 1) : lit.pattern[j] = par.pattern[j] )
            => (lookup.answer.found /\ lookup.answer.entry = lit /\ lookup.answer.entry # par)

\* The literal route was registered first, the parameter route after it.
C17_Witness ==
    /\ lookup.asked
    /\ lookup.path = <<"users", "active">>
    /\ lookup.answer.entry.pattern = UsersActive
    /\ \E i, j \in 1..Len(lookup.added) :
          /\ i < j
          /\ lookup.added[i].pattern = UsersActive
          /\ lookup.added[j].pattern \in {UserId, UserName}
          /\ lookup.added[j] \in lookup.table

(***************************************************************************)
(* Static resources.                                                       *)
(***************************************************************************)
IsStatic(c) == c.route.callback = "handleStatic"

\* C11: for a static resource that has a modification time, the handler
\* answers 304 with no body, without reading the file, exactly when the
\* request's if-modified-since header equals the modification time in
\* HTTP-date form; otherwise it sets Last-Modified to that time and returns
\* the file bytes.  So a request carrying the Last-Modified value the client
\* kept gets 304 while the file's date is unchanged, and any other value
\* gets the full body.
C11_ConditionalGet ==
    \A r \in DOMAIN req :
        LET c == req[r]
            date == HttpDate(c.stat.mtime \div 1000)
        IN  (IsStatic(c) /\ Has(c, "stat") /\ c.stat.hasMtime) =>
              /\ c.ifModifiedSince = date =>
                    /\ c.pc = "sent"
                    /\ c.built.status = 304
                    /\ c.built.body = NullBody
                    /\ c.statusText = "Not Modified"
                    /\ ~Has(c, "readFile")
              /\ c.ifModifiedSince # date =>
                    /\ Has(c, "readFile")
                    /\ c.headers.lastModified = date
                    /\ c.status # 304
                    /\ (c.pc = "sent" /\ c.raised = NoError) =>
                          (c.built.status = 200 /\ c.built.body = FileBytes)
              /\ (client.set /\ c.ifModifiedSince = client /\ client = date) =>
                    c.built.status = 304

\* The second request carries the Last-Modified value of the first response.
C11_Witness ==
    \E r \in DOMAIN req :
        /\ IsStatic(req[r])
        /\ req[r].pc = "sent"
        /\ req[r].built.status = 304
        /\ client.set
        /\ req[r].ifModifiedSince = client

\* C12: in the static handler a missing file surfaces as a Not-Found
\* failure with status 404 and every other I/O failure propagates unchanged;
\* both meet the dispatcher's error policy: the registered ErrorHandler if
\* any, else the plain-text message at the failure's status, 500 when it
\* declares none.
C12_StaticFailures ==
    \A r \in DOMAIN req :
        LET c == req[r]
            status == IF c.raised.status = 0 THEN 500 ELSE c.raised.status
        IN  (IsStatic(c) /\ c.io # "") =>
              /\ c.io = "missing" => c.raised = [status |-> 404, message |-> "File not found"]
              /\ c.io # "missing" => c.raised = IOFailure
              /\ Has(c, "log")
              /\ c.status = status
              /\ IF errorHandler
                 THEN /\ Has(c, "errorHandler")
                      /\ c.error = [c.raised EXCEPT !.status = status]
                      /\ c.pc = "sent" => (c.built.status = status /\ c.built.body = ErrorPage)
                 ELSE /\ c.pc = "sent"
                      /\ c.built.status = status
                      /\ c.built.body = <<c.raised.message>>

\* A failure other than Not-Found, with no ErrorHandler: 500 and its message.
C12_Witness ==
    \E r \in DOMAIN req :
        /\ IsStatic(req[r])
        /\ req[r].io = "error"
        /\ ~errorHandler
        /\ req[r].pc = "sent"
        /\ req[r].built.status = 500

(***************************************************************************)
(* Composing a second time.                                                *)
(***************************************************************************)
\* The step runs #compose on a server that has composed before; the
\* registry is what it was then (declarations are made while loading).
ComposesAgain == phase = "serving" /\ (Listen \/ Dispatch)
AnswersUnchanged ==
    \A m \in RequestMethods \cup {ALL}, p \in RequestPaths :
        RouterFind(router', m, p) = RouterFind(router, m, p)

\* C13 as stated: composing again with an unchanged registry never changes
\* what the router answers.  (Fails after a direct router.add of a route
\* the registry also declares.)
C13_ComposeAgainChangesNothing == [][ComposesAgain => AnswersUnchanged]_vars

\* C13 (amended): composing a second time with an unchanged metadata
\* registry, and with no route added to the router directly (shortcut or
\* serve) since the previous compose, does not change which route, handler
\* and params the router answers for any method and path.
C13_ComposeIdempotent == [][(ComposesAgain /\ ~lookup.direct) => AnswersUnchanged]_vars

\* A lookup found a route on the composed server, then compose ran again.
C13_Witness ==
    /\ lookup.asked
    /\ lookup.phase = "serving"
    /\ lookup.answer.found
    /\ lookup.composes >= 1
    /\ ~lookup.direct
    /\ RouterFind(router, lookup.method, lookup.path) = lookup.answer

(***************************************************************************)
(* Requests in flight together.                                            *)
(***************************************************************************)
\* What a request's Context and response hold of the mutable facets.
Facets(c) == <<c.status, c.statusText, c.headers, c.responseTime, c.params, c.error, c.built>>
Fresh(c) ==
    /\ c.statusText = ""
    /\ c.headers = NoHeaders
    /\ c.params = (IF c.route = NoRoute THEN {} ELSE ParamsOf(c.route.pattern, c.path))
    /\ c.error # NoError => Has(c, "notFound")
    /\ c.status # OK => Has(c, "notFound")

\* C14: each request has its own Context: a step of one request leaves the
\* status, status text, response headers, params, error and response of
\* every other request as they were, and a new request starts from a fresh
\* Context, whatever the requests in flight have done to theirs.
C14_ContextsIsolated ==
    [][\A r \in DOMAIN req :
          /\ req'[r] # req[r] =>
                \A o \in DOMAIN req \ {r} : Facets(req'[o]) = Facets(req[o])
          /\ (req[r].pc = "idle" /\ req'[r].pc # "idle") => Fresh(req'[r])]_vars

\* Two requests in flight whose Contexts differ in params and status.
C14_Witness ==
    \E r, o \in DOMAIN req :
        /\ r # o
        /\ req[r].pc = "handler"
        /\ req[o].pc = "sent"
        /\ req[o].status = NOT_MODIFIED
        /\ req[r].status = OK
        /\ req[r].params # {} /\ req[o].params # {}
        /\ req[r].params # req[o].params

\* The state of the instance a request reaches through ctx[name].
Observed(c, name) == {pluginState[b[2]] : b \in {x \in c.plugins : x[1] = name}}

\* C15: every Context has every registered plugin bound under its name
\* before route matching starts, and the bound value is the one process-wide
\* instance: what one request does to it, every other request sees.
C15_PluginsBound ==
    \A r \in DOMAIN req :
        LET c == req[r]
            t == c.trace
        IN  c.pc # "idle" =>
              /\ c.plugins = plugins
              /\ \A n \in PluginNames :
                    (\E b \in plugins : b[1] = n) =>
                        /\ Cardinality({b \in c.plugins : b[1] = n}) = 1
                        /\ \A o \in DOMAIN req :
                              req[o].pc # "idle" => Observed(req[o], n) = Observed(c, n)
              /\ \E i \in 1..Len(t) :
                    /\ t[i].ev = "plugins"
                    /\ \A j \in 1..Len(t) : t[j].ev \in {"matched", "notFound"} => i < j

\* One request changed the plugin's state; another, which did not, sees it.
C15_Witness ==
    \E r, o \in DOMAIN req :
        /\ r # o
        /\ Has(req[r], "plugin")
        /\ ~Has(req[o], "plugin")
        /\ req[o].pc = "handler"
        /\ \E n \in PluginNames : Observed(req[o], n) = {1}

\* C30 as stated: whenever paginate returns, 1 <= pageIndex <= totalPages,
\* totalPages = ceil(totalRecords / pageSize), startIndex = pageSize *
\* (pageIndex - 1), endIndex = startIndex + pageSize and 0 <= startIndex <
\* totalRecords; every other input is rejected with a status-400 error.
\* (Fails: a pageIndex given as the number 0 or a negative number is accepted.)
C30_PaginateContract ==
    pg.called =>
        LET out == pg.out
        IN  IF out.threw
            THEN out.status = 400
            ELSE /\ 1 <= out.pageIndex /\ out.pageIndex <= out.totalPages
                 /\ out.totalPages * pg.pageSize >= pg.totalRecords
                 /\ (out.totalPages - 1) * pg.pageSize < pg.totalRecords
                 /\ out.startIndex = pg.pageSize * (out.pageIndex - 1)
                 /\ out.endIndex = out.startIndex + pg.pageSize
                 /\ 0 <= out.startIndex /\ out.startIndex < pg.totalRecords

\* paginate returned a page below 1, with a negative startIndex.
C30_Witness ==
    /\ pg.called
    /\ ~pg.out.threw
    /\ pg.out.pageIndex < 1
    /\ pg.out.startIndex < 0

(***************************************************************************)
(* What handling requests leaves alone, and what a hung callback blocks.   *)
(***************************************************************************)
\* C21: handling requests never changes the router's routes, the metadata
\* registry's routes and middleware list, the plugin bindings or the error
\* handler: every step of a request, successful, not-found or failing,
\* leaves them as they were after compose.
C21_RequestsLeaveRegistry ==
    [][(phase = "serving" /\ req' # req) =>
          UNCHANGED <<router, metaRoutes, middlewares, plugins, errorHandler>>]_vars

\* A failed request and a not-found request have both been answered.
C21_Witness ==
    \E r, o \in DOMAIN req :
        /\ r # o
        /\ req[r].pc = "sent" /\ Has(req[r], "handlerRaise")
        /\ req[o].pc = "sent" /\ Has(req[o], "notFound")
        /\ router = ConcRoutes
        /\ plugins # {}

Awaiting(c) == c.pc \in {"mw", "mwJoin", "handler", "errorHandler"}

C23_AtMostOneConnection ==
    mpd.open <= 1

\* Two connections of the one client are open.
C23_Witness == mpd.open = 2

\* C28 as stated: every operation that takes an argument sends the command
\* followed by the quoted argument, also for the number 0 and the empty string.
\* (Fails: a falsy argument is dropped and the bare command is sent.)
C28_ArgumentAlwaysSent ==
    \A k \in MpdCalls :
        LET call == mpd.calls[k]
        IN  (call.pc = "reading" /\ call.argument.given) =>
                /\ call.line.command = call.command
                /\ call.line.quoted
                /\ call.line.text = String(call.argument)

\* setRepeat(0) has sent the bare command.
C28_Witness ==
    \E k \in MpdCalls :
        /\ mpd.calls[k].pc = "reading"
        /\ mpd.calls[k].command = "repeat"
        /\ mpd.calls[k].argument = NumberArgument(0)
        /\ mpd.calls[k].line = [command |-> "repeat", quoted |-> FALSE, text |-> <<>>]

\* The message a record of the reply stands for.
MessageOfRecord(record) == parseMessageObject(record).messages[1]

\* C29 as stated: a list command returns one message per record of the
\* reply, in reply order, and an empty list, without raising, for a reply
\* of no record lines.
\* (Fails: an empty reply raises; a directory's files are merged into it.)
C29_OneMessagePerRecord ==
    (mpd.last.called /\ mpd.last.command \in {"playlistinfo", "lsinfo"} /\ ~mpd.last.ack) =>
        /\ ~mpd.last.out.threw
        /\ Len(mpd.last.out.messages) = Len(mpd.last.records)
        /\ \A i \in 1..Len(mpd.last.records) :
              mpd.last.out.messages[i] = MessageOfRecord(mpd.last.records[i])

\* playlistinfo on an empty playlist has raised.
C29_Witness ==
    /\ mpd.last.called
    /\ mpd.last.command = "playlistinfo"
    /\ mpd.last.records = <<>> /\ ~mpd.last.ack
    /\ mpd.last.out.threw
    /\ mpd.last.out.message = TypeError

(***************************************************************************)
(* Cache.                                                                  *)
(***************************************************************************)
\* C24 as stated: after set(key, value) without a ttl, get(key) returns
\* that value at every later time until the next set, ttl or delete on the
\* key, also when the key held an entry stored with a ttl before.
\* (Fails: the earlier entry's expire instant stays on the entry.)
C24_SetWithoutTtlStays ==
    (cache.last.called /\ cache.last.promise.kind = "always") =>
        /\ cache.last.hit
        /\ cache.last.value = cache.last.promise.value

\* A value set without a ttl was not returned by a later get.
C24_Witness ==
    /\ cache.last.called
    /\ cache.last.promise.kind = "always"
    /\ ~cache.last.hit

\* C25 as stated: for an entry stored or refreshed with a ttl, and no later
\* set, ttl or delete on the key, get(key) returns the value at every time
\* before the recorded expire instant and null from that instant on.
\* (Fails: the evicting timer runs after ttl milliseconds, a thousand times
\* earlier than the expire instant.)
C25_TimerAgreesWithExpire ==
    (cache.last.called /\ cache.last.promise.kind = "until") =>
        IF cache.last.at < cache.last.promise.expire
        THEN cache.last.hit /\ cache.last.value = cache.last.promise.value
        ELSE ~cache.last.hit

\* A get before the recorded expire instant returned null.
C25_Witness ==
    /\ cache.last.called
    /\ cache.last.promise.kind = "until"
    /\ cache.last.at < cache.last.promise.expire
    /\ ~cache.last.hit

(***************************************************************************)
(* Postgres.                                                               *)
(***************************************************************************)
HeldBy(k) == {c \in PoolClients : pool.clients[c] = k}

\* C26: execute releases every pooled client it acquires exactly once,
\* whether the query returns or raises, a query failure reaches the caller
\* after the release, and once every execute call has completed no client
\* is held.
C26_ReleasedExactlyOnce ==
    /\ \A k \in PoolCalls :
          LET call == pool.calls[k]
          IN  /\ call.pc = "query" => (HeldBy(k) = {call.client} /\ call.released = 0)
              /\ call.pc # "query" => HeldBy(k) = {}
              /\ (call.pc = "done" /\ call.client # Free) =>
                    /\ call.released = 1
                    /\ call.trace \in { <<"acquire", "query", "release", "return">>,
                                        <<"acquire", "query", "release", "throw">> }
              /\ (call.pc = "done" /\ call.client = Free) =>
                    (call.released = 0 /\ call.trace = <<"throw">>)
    /\ (\A k \in PoolCalls : pool.calls[k].pc \in {"idle", "done"}) =>
          \A c \in PoolClients : pool.clients[c] = Free

\* A query failed, its client was released and is held by the next call.
C26_Witness ==
    \E k, o \in PoolCalls :
        /\ k # o
        /\ pool.calls[k].pc = "done"
        /\ pool.calls[k].outcome = "threw"
        /\ pool.calls[k].released = 1
        /\ pool.calls[o].pc = "query"
        /\ pool.calls[o].client = pool.calls[k].client

(***************************************************************************)
(* EventResponse and EventStream.                                          *)
(***************************************************************************)
\* C27 as stated: once the stream has been cancelled no further event
\* message is enqueued on its controller, also when cancel happens while a
\* callback of an earlier tick is still awaiting data().
\* (Fails: the callback enqueues when data() resolves, cancelled or not.)
C27_NoEnqueueAfterCancel ==
    sse.cancelled => sse.late = 0

\* The stream was cancelled while a tick awaited data(), which then enqueued.
C27_Witness ==
    /\ sse.cancelled
    /\ sse.timer = 0
    /\ sse.late > 0
====
